---- MODULE Spec2Model ----
(***************************************************************************)
(* Orbital Temple flight firmware (V1.21): a state-machine model of the    *)
(* mission control plane.                                                  *)
(*                                                                         *)
(*   radiation store   radiation.h / radiation.cpp / config.cpp            *)
(*   message codec     loop.cpp (validateMessage, processMessage)          *)
(*   radio link        lora.cpp                                            *)
(*   beacon scheduler  config.cpp                                          *)
(*   mission loop      loop.cpp (mainLoop, handleAntennaDeployment)        *)
(*   image uploader    image.cpp                                           *)
(*                                                                         *)
(* Firmware operations are written as operators on a record of the         *)
(* firmware's globals (Cur), so that a handler is the composition of the   *)
(* calls it makes; an action applies one handler and stores the result.    *)
(* 32-bit quantities that are stored bytewise (checkpoint fields, CRC) are *)
(* little-endian 4-tuples of bytes.                                        *)
(***************************************************************************)
EXTENDS Integers, Sequences, FiniteSets, TLC

(***************************************************************************)
(* Bounds of the model                                                     *)
(***************************************************************************)
\* replicated-cell harness: values a copy can hold are 0..MaxVal
MaxVal == 3

\* codec: frame bodies have at most MaxBody characters
MaxBody == 5

\* mission: a pass of the main loop starts every TickMs milliseconds
TickMs == 5000

\* mission: a boot is followed for MaxNow milliseconds
MaxNow == 330000

\* mission: frames, unscheduled resets and hardware faults are events; a run
\* has at most MaxEvents of them, each within EventWindow milliseconds of a boot
MaxEvents == 3
EventWindow == 70000


\* checkpoint: a boot is followed for CkptMaxNow milliseconds, and a run has at
\* most MaxCkptEvents commands and unscheduled resets
CkptMaxNow == 21500
MaxCkptEvents == 3

\* radio link: sends stop when a retry counter has reached MaxRadioFaults
MaxRadioFaults == 7

\* image upload: a pass of the main loop starts every ImgTickMs milliseconds,
\* and the boot is followed for ImgMaxNow milliseconds
ImgTickMs == 2000
ImgMaxNow == 13500

\* ground session: a pass of loop() starts every SessTickMs milliseconds, a
\* boot is followed for SessMaxNow milliseconds, and a run has at most
\* MaxSessEvents frames and unscheduled resets, each within SessWindow
\* milliseconds of a boot
SessTickMs == 2000
SessMaxNow == 75500
MaxSessEvents == 3
SessWindow == 12000

\* recording: a pass of loop() starts AccTickMs milliseconds after the last one,
\* or AccShortMs during the first AccJitterSamples samples of a recording; the
\* card may refuse a write until AccFaultUntil, the first contact comes before
\* AccContactUntil, and the boot is followed for AccMaxNow milliseconds; an
\* undisturbed stretch of the recording is AccBatch passes long
AccTickMs == 34
AccShortMs == 17
AccJitterSamples == 2
AccFaultUntil == 1700
AccContactUntil == 1520
AccMaxNow == 66000
AccBatch == 32

\* memory upsets: a pass of loop() starts every SeuTickMs milliseconds, a run
\* has at most MaxSeuEvents upsets and frames, all within SeuWindow milliseconds
\* of the boot, and the boot is followed for SeuMaxNow milliseconds
SeuTickMs == 5000
MaxSeuEvents == 3
SeuWindow == 15000
SeuMaxNow == 135000

\* transmit faults: a pass of loop() starts every TxTickMs milliseconds and the
\* boot is followed for TxMaxNow milliseconds
TxTickMs == 4000
TxMaxNow == 481500

\* beacon scheduler: the clock values tried lie BeaconSkew milliseconds
\* around the wrap of the clock and around the 24-hour threshold
BeaconSkew == 1000

\* image parameters: a pass of the main loop starts every ParTickMs
\* milliseconds, and the boot is followed for ParMaxNow milliseconds
ParTickMs == 2000
ParMaxNow == 9500

\* image upload with timeouts: a pass of the main loop that has a frame to
\* read starts UpTickMs milliseconds after the previous one, a pass after a
\* silence UpQuietMs milliseconds after it; a run has at most MaxUpEvents
\* frames and is followed for UpMaxNow milliseconds
UpTickMs == 2000
UpQuietMs == 61000
MaxUpEvents == 5
UpMaxNow == 140000

\* file commands: a pass of the main loop starts every FsTickMs milliseconds,
\* and the boot is followed for FsMaxNow milliseconds
FsTickMs == 2000
FsMaxNow == 9500
(***************************************************************************)
(* Triple modular redundancy (radiation.h)                                 *)
(***************************************************************************)
\* tmrWrite: all three copies are set
tmrWrite(value) == [copy1 |-> value, copy2 |-> value, copy3 |-> value]

\* the vote with the third comparison lost: copy1 wins whenever it differs
tmrRead_copy1(t) ==
    IF t.copy1 = t.copy2 THEN t.copy1
    ELSE IF t.copy1 = t.copy3 THEN t.copy1
    ELSE t.copy1

\* tmrRead: 2-out-of-3 vote; copy1 when all three differ
tmrRead(t) ==
    IF t.copy1 = t.copy2 THEN t.copy1
    ELSE IF t.copy1 = t.copy3 THEN t.copy1
    ELSE IF t.copy2 = t.copy3 THEN t.copy2
    ELSE t.copy1

\* tmrScrub: every copy that differs from the vote is rewritten;
\* .corrected is the function's return value
tmrScrub(t) ==
    LET correct == tmrRead(t)
        t1 == IF t.copy1 # correct THEN [t  EXCEPT !.copy1 = correct] ELSE t
        t2 == IF t1.copy2 # correct THEN [t1 EXCEPT !.copy2 = correct] ELSE t1
        t3 == IF t2.copy3 # correct THEN [t2 EXCEPT !.copy3 = correct] ELSE t2
    IN  [tmr |-> t3,
         corrected |-> (t.copy1 # correct \/ t.copy2 # correct \/ t.copy3 # correct)]

(***************************************************************************)
(* Strings.  A String is a sequence of one-character strings; positions    *)
(* are 0-based as in the Arduino String class.                             *)
(***************************************************************************)
\* the printable ASCII characters, codes 32..126, in code order (code 96, the
\* grave accent, is spelled out)
Printable == <<
    " ", "!", "\"", "#", "$", "%", "&", "'", "(", ")", "*", "+", ",", "-", ".", "/",
    "0", "1", "2", "3", "4", "5", "6", "7", "8", "9", ":", ";", "<", "=", ">", "?",
    "@", "A", "B", "C", "D", "E", "F", "G", "H", "I", "J", "K", "L", "M", "N", "O",
    "P", "Q", "R", "S", "T", "U", "V", "W", "X", "Y", "Z", "[", "\\", "]", "^", "_",
    "grave", "a", "b", "c", "d", "e", "f", "g", "h", "i", "j", "k", "l", "m", "n", "o",
    "p", "q", "r", "s", "t", "u", "v", "w", "x", "y", "z", "{", "|", "}", "~" >>

\* the character code of a character
CodeOf ==
    [c \in {Printable[i] : i \in 1..Len(Printable)} |->
        31 + CHOOSE i \in 1..Len(Printable) : Printable[i] = c]

\* the character of a code
CharOf(code) == Printable[code - 31]

\* isalnum of the C library, on 7-bit characters
isalnum(c) ==
    LET code == CodeOf[c] IN
        \/ code >= CodeOf["0"] /\ code <= CodeOf["9"]
        \/ code >= CodeOf["A"] /\ code <= CodeOf["Z"]
        \/ code >= CodeOf["a"] /\ code <= CodeOf["z"]

\* String::toLowerCase
toLowerCase(str) ==
    [i \in 1..Len(str) |->
        IF CodeOf[str[i]] >= CodeOf["A"] /\ CodeOf[str[i]] <= CodeOf["Z"]
        THEN CharOf(CodeOf[str[i]] + (CodeOf["a"] - CodeOf["A"]))
        ELSE str[i]]

\* String::toUpperCase
toUpperCase(str) ==
    [i \in 1..Len(str) |->
        IF CodeOf[str[i]] >= CodeOf["a"] /\ CodeOf[str[i]] <= CodeOf["z"]
        THEN CharOf(CodeOf[str[i]] - (CodeOf["a"] - CodeOf["A"]))
        ELSE str[i]]

\* String::indexOf(char) and String::indexOf(String): the 0-based position of
\* the first occurrence of pat (a non-empty String), -1 if there is none
indexOf(str, pat) ==
    LET found == {i \in 0..(Len(str) - Len(pat)) :
                     SubSeq(str, i + 1, i + Len(pat)) = pat}
    IN  IF found = {} THEN -1
        ELSE CHOOSE i \in found : \A j \in found : i <= j

\* String::substring(left, right): characters left .. right-1
substring(str, left, right) ==
    LET lo == IF left > right THEN right ELSE left
        hi == IF left > right THEN left ELSE right
    IN  IF lo >= Len(str) THEN <<>>
        ELSE SubSeq(str, lo + 1, IF hi > Len(str) THEN Len(str) ELSE hi)

(***************************************************************************)
(* Satellite id and message authentication (id.cpp, config.cpp)            *)
(***************************************************************************)
\* getId: the id of the satellite
sat_id ==
    <<"a", "b", "4", "e", "c", "7", "1", "2", "1", "6", "6", "3", "a", "2", "8", "e",
      "7", "2", "2", "6", "d", "b", "a", "a", "2", "3", "8", "d", "a", "7", "7", "7">>

\* the secret key, folded into the start value of the digest
HMAC_KEY == 40503

RECURSIVE hmacUpdate(_, _, _)
\* what message[lo..hi] contributes to the digest: every character weighted
\* by its position
hmacUpdate(message, lo, hi) ==
    IF lo > hi THEN 0
    ELSE IF lo = hi THEN CodeOf[message[lo]] * lo
    ELSE hmacUpdate(message, lo, (lo + hi) \div 2)
             + hmacUpdate(message, ((lo + hi) \div 2) + 1, hi)

\* hmacResult[0..7]: the first eight bytes of the keyed digest of message.
\* HMAC-SHA256 is a library primitive (mbedtls); the model keeps that it is a
\* deterministic keyed function of the whole message and replaces the hash by
\* a position-weighted checksum.
hmacResult(message) ==
    LET h == (HMAC_KEY + hmacUpdate(message, 1, Len(message))) % 65521
    IN  [i \in 0..7 |-> (h \div (i + 1) + 37 * i) % 256]

HexDigits ==
    <<"0", "1", "2", "3", "4", "5", "6", "7", "8", "9", "a", "b", "c", "d", "e", "f">>

\* String(value, HEX) of a byte: lowercase, no leading zero
StringHEX(value) ==
    IF value < 16 THEN <<HexDigits[value + 1]>>
    ELSE <<HexDigits[(value \div 16) + 1], HexDigits[(value % 16) + 1]>>

\* calculateHMAC: the first 8 digest bytes as 16 hex characters
calculateHMAC(message) ==
    LET hmacResultBytes == hmacResult(message)
        hex(i) == (IF hmacResultBytes[i] < 16 THEN <<"0">> ELSE <<>>)
                      \o StringHEX(hmacResultBytes[i])
    IN  hex(0) \o hex(1) \o hex(2) \o hex(3) \o hex(4) \o hex(5) \o hex(6) \o hex(7)

\* verifyHMAC: case-insensitive comparison with the calculated tag
verifyHMAC(message, receivedHMAC) ==
    toLowerCase(receivedHMAC) = toLowerCase(calculateHMAC(message))

(***************************************************************************)
(* Message codec (loop.cpp): SAT_ID-COMMAND&PATH@DATA#HMAC                 *)
(***************************************************************************)
\* the outcome of validateMessage: its return value, the out-parameters, the
\* line it logs and the messages it hands to sendMessage
Verdict(ok, log, sent, satId, command, path, data, hmac) ==
    [ok |-> ok, log |-> log, sent |-> sent, satId |-> satId,
     command |-> command, path |-> path, data |-> data, hmac |-> hmac]

Rejected(log, sent) == Verdict(FALSE, log, sent, <<>>, <<>>, <<>>, <<>>, <<>>)

\* the field checks with the authentication check ahead of the traversal check
fieldChecks_authFirst(satId, command, path, data, hmac, hmacValid) ==
    IF satId # sat_id
    THEN Rejected("Wrong satellite ID", <<>>)
    ELSE IF \E i \in 1..Len(command) : ~isalnum(command[i])
    THEN Rejected("Invalid command characters", <<>>)
    ELSE IF ~hmacValid
    THEN Rejected("HMAC verification failed!", << <<"ERR:AUTH_FAILED">> >>)
    ELSE IF indexOf(path, <<".", ".">>) # -1
    THEN Rejected("Path traversal blocked!", << <<"ERR:PATH_TRAVERSAL_BLOCKED">> >>)
    ELSE Verdict(TRUE, "Valid message received", <<>>, satId, command, path, data, hmac)

\* the field checks with an answer to a frame addressed to another satellite
fieldChecks_answerAll(satId, command, path, data, hmac, hmacValid) ==
    IF satId # sat_id
    THEN Rejected("Wrong satellite ID", << <<"ERR:AUTH_FAILED">> >>)
    ELSE IF \E i \in 1..Len(command) : ~isalnum(command[i])
    THEN Rejected("Invalid command characters", <<>>)
    ELSE IF indexOf(path, <<".", ".">>) # -1
    THEN Rejected("Path traversal blocked!", << <<"ERR:PATH_TRAVERSAL_BLOCKED">> >>)
    ELSE IF ~hmacValid
    THEN Rejected("HMAC verification failed!", << <<"ERR:AUTH_FAILED">> >>)
    ELSE Verdict(TRUE, "Valid message received", <<>>, satId, command, path, data, hmac)

\* validateMessage after the parts are extracted: satellite id, command
\* characters, path traversal, authentication, in this order
fieldChecks(satId, command, path, data, hmac, hmacValid) ==
    IF satId # sat_id
    THEN Rejected("Wrong satellite ID", <<>>)
    ELSE IF \E i \in 1..Len(command) : ~isalnum(command[i])
    THEN Rejected("Invalid command characters", <<>>)
    ELSE IF indexOf(path, <<".", ".">>) # -1
    THEN Rejected("Path traversal blocked!", << <<"ERR:PATH_TRAVERSAL_BLOCKED">> >>)
    ELSE IF ~hmacValid
    THEN Rejected("HMAC verification failed!", << <<"ERR:AUTH_FAILED">> >>)
    ELSE Verdict(TRUE, "Valid message received", <<>>, satId, command, path, data, hmac)

\* validateMessage
validateMessage(msg) ==
    IF Len(msg) < 7 THEN Rejected("Message too short", <<>>)
    ELSE IF Len(msg) > 500 THEN Rejected("Message too long", <<>>)
    ELSE
        LET dashIdx == indexOf(msg, <<"-">>)
            ampIdx  == indexOf(msg, <<"&">>)
            atIdx   == indexOf(msg, <<"@">>)
            hashIdx == indexOf(msg, <<"#">>)
        IN  IF dashIdx = -1 \/ ampIdx = -1 \/ atIdx = -1 \/ hashIdx = -1
            THEN Rejected("Missing delimiter(s)", <<>>)
            ELSE IF ~(dashIdx < ampIdx /\ ampIdx < atIdx /\ atIdx < hashIdx)
            THEN Rejected("Delimiters in wrong order", <<>>)
            ELSE fieldChecks(substring(msg, 0, dashIdx),
                             substring(msg, dashIdx + 1, ampIdx),
                             substring(msg, ampIdx + 1, atIdx),
                             substring(msg, atIdx + 1, hashIdx),
                             substring(msg, hashIdx + 1, Len(msg)),
                             verifyHMAC(substring(msg, 0, hashIdx),
                                        substring(msg, hashIdx + 1, Len(msg))))

(***************************************************************************)
(* Bytes and 32-bit words.  A uint32_t that is stored bytewise is the       *)
(* tuple <<b0, b1, b2, b3>> of its bytes, least significant first, as      *)
(* EEPROM.put lays it out.                                                 *)
(***************************************************************************)
Byte == 0..255

\* a ^ b on 4-bit values, bit by bit
Xor4(a, b) ==
    LET bit(k) == ((a \div (2 ^ k)) + (b \div (2 ^ k))) % 2
    IN  bit(0) + 2 * bit(1) + 4 * bit(2) + 8 * bit(3)

\* the table of a ^ b for all pairs of 4-bit values
XorTable4 == [a \in 0..15 |-> [b \in 0..15 |-> Xor4(a, b)]]

\* the table of a ^ b for all pairs of bytes
XorTable ==
    [a \in Byte |-> [b \in Byte |->
        16 * XorTable4[a \div 16][b \div 16] + XorTable4[a % 16][b % 16]]]

\* a ^ b on bytes
Xor8(a, b) == XorTable[a][b]

\* a ^ b on 32-bit words
Xor32(x, y) ==
    <<Xor8(x[1], y[1]), Xor8(x[2], y[2]), Xor8(x[3], y[3]), Xor8(x[4], y[4])>>

\* (uint32_t)n for 0 <= n < 2^31
U32(n) == <<n % 256, (n \div 256) % 256, (n \div 65536) % 256, (n \div 16777216) % 256>>

\* x + 1 on 32-bit words, wrapping
Inc32(x) ==
    IF x[1] < 255 THEN <<x[1] + 1, x[2], x[3], x[4]>>
    ELSE IF x[2] < 255 THEN <<0, x[2] + 1, x[3], x[4]>>
    ELSE IF x[3] < 255 THEN <<0, 0, x[3] + 1, x[4]>>
    ELSE <<0, 0, 0, (x[4] + 1) % 256>>

(***************************************************************************)
(* CRC32 (radiation.cpp)                                                   *)
(***************************************************************************)
\* crc32_table, entry by entry as in the source
crc32_table == <<
    <<0,0,0,0>>, <<150,48,7,119>>, <<44,97,14,238>>, <<186,81,9,153>>,
    <<25,196,109,7>>, <<143,244,106,112>>, <<53,165,99,233>>, <<163,149,100,158>>,
    <<50,136,219,14>>, <<164,184,220,121>>, <<30,233,213,224>>, <<136,217,210,151>>,
    <<43,76,182,9>>, <<189,124,177,126>>, <<7,45,184,231>>, <<145,29,191,144>>,
    <<100,16,183,29>>, <<242,32,176,106>>, <<72,113,185,243>>, <<222,65,190,132>>,
    <<125,212,218,26>>, <<235,228,221,109>>, <<81,181,212,244>>, <<199,133,211,131>>,
    <<86,152,108,19>>, <<192,168,107,100>>, <<122,249,98,253>>, <<236,201,101,138>>,
    <<79,92,1,20>>, <<217,108,6,99>>, <<99,61,15,250>>, <<245,13,8,141>>,
    <<200,32,110,59>>, <<94,16,105,76>>, <<228,65,96,213>>, <<114,113,103,162>>,
    <<209,228,3,60>>, <<71,212,4,75>>, <<253,133,13,210>>, <<107,181,10,165>>,
    <<250,168,181,53>>, <<108,152,178,66>>, <<214,187,187,219>>, <<64,203,188,172>>,
    <<227,108,216,50>>, <<117,92,223,69>>, <<207,13,214,220>>, <<89,61,209,171>>,
    <<172,48,217,38>>, <<58,0,222,81>>, <<128,81,215,200>>, <<22,97,208,191>>,
    <<181,244,180,33>>, <<35,196,179,86>>, <<153,149,186,207>>, <<15,165,189,184>>,
    <<158,184,2,40>>, <<8,136,5,95>>, <<178,217,12,198>>, <<36,233,11,177>>,
    <<135,124,111,47>>, <<17,76,104,88>>, <<171,29,97,193>>, <<61,45,102,182>>,
    <<144,65,220,118>>, <<6,113,219,1>>, <<188,32,210,152>>, <<42,16,213,239>>,
    <<137,133,177,113>>, <<31,181,182,6>>, <<165,228,191,159>>, <<51,212,184,232>>,
    <<162,201,7,120>>, <<52,249,0,15>>, <<142,168,9,150>>, <<24,152,14,225>>,
    <<187,13,106,127>>, <<45,61,109,8>>, <<151,108,100,145>>, <<1,92,99,230>>,
    <<244,81,107,107>>, <<98,97,108,28>>, <<216,48,101,133>>, <<78,0,98,242>>,
    <<237,149,6,108>>, <<123,165,1,27>>, <<193,244,8,130>>, <<87,196,15,245>>,
    <<198,217,176,101>>, <<80,233,183,18>>, <<234,184,190,139>>, <<124,136,185,252>>,
    <<223,29,221,98>>, <<73,45,218,21>>, <<243,124,211,140>>, <<101,76,212,250>>,
    <<88,97,178,77>>, <<206,81,181,58>>, <<116,0,188,163>>, <<226,48,187,212>>,
    <<65,165,223,74>>, <<215,149,216,61>>, <<109,196,209,164>>, <<251,244,214,211>>,
    <<106,233,105,67>>, <<252,217,110,52>>, <<70,136,103,173>>, <<208,184,96,218>>,
    <<115,45,4,68>>, <<229,29,3,51>>, <<95,76,10,170>>, <<201,124,13,221>>,
    <<60,113,5,80>>, <<170,65,2,39>>, <<16,16,11,190>>, <<134,32,12,201>>,
    <<37,181,104,87>>, <<179,133,111,32>>, <<9,212,102,185>>, <<159,228,97,206>>,
    <<14,249,222,94>>, <<152,201,217,41>>, <<34,152,208,176>>, <<180,168,215,199>>,
    <<23,61,179,89>>, <<129,13,180,46>>, <<59,92,189,183>>, <<173,108,186,192>>,
    <<32,131,184,237>>, <<182,179,191,154>>, <<12,226,182,3>>, <<154,210,177,116>>,
    <<57,71,213,234>>, <<175,119,210,157>>, <<21,38,219,4>>, <<131,22,220,115>>,
    <<18,11,99,227>>, <<132,59,100,148>>, <<62,106,109,13>>, <<168,90,106,122>>,
    <<11,207,14,228>>, <<157,255,9,147>>, <<39,174,0,10>>, <<177,158,7,125>>,
    <<68,147,15,240>>, <<210,163,8,135>>, <<104,242,1,30>>, <<254,194,6,105>>,
    <<93,87,98,247>>, <<203,103,101,128>>, <<113,54,108,25>>, <<231,6,107,110>>,
    <<118,27,212,254>>, <<224,43,211,137>>, <<90,122,218,16>>, <<204,74,221,103>>,
    <<111,223,185,249>>, <<249,239,190,142>>, <<67,190,183,23>>, <<213,142,176,96>>,
    <<232,163,214,214>>, <<126,147,209,161>>, <<196,194,216,56>>, <<82,242,223,79>>,
    <<241,103,187,209>>, <<103,87,188,166>>, <<221,6,181,63>>, <<75,54,178,72>>,
    <<218,43,13,216>>, <<76,27,10,175>>, <<246,74,3,54>>, <<96,122,4,65>>,
    <<195,239,96,223>>, <<85,223,103,168>>, <<239,142,110,49>>, <<121,190,105,70>>,
    <<140,179,97,203>>, <<26,131,102,188>>, <<160,210,111,37>>, <<54,226,104,82>>,
    <<149,119,12,204>>, <<3,71,11,187>>, <<185,22,2,34>>, <<47,38,5,85>>,
    <<190,59,186,197>>, <<40,11,189,178>>, <<146,90,180,43>>, <<4,106,179,92>>,
    <<167,255,215,194>>, <<49,207,208,181>>, <<139,158,217,44>>, <<29,174,222,91>>,
    <<176,194,100,155>>, <<38,242,99,236>>, <<156,163,106,117>>, <<10,147,109,2>>,
    <<169,6,9,156>>, <<63,54,14,235>>, <<133,103,7,114>>, <<19,87,0,5>>,
    <<130,74,191,149>>, <<20,122,184,226>>, <<174,43,177,123>>, <<56,27,182,12>>,
    <<155,142,210,146>>, <<13,190,213,229>>, <<183,239,220,124>>, <<33,223,219,11>>,
    <<212,210,211,134>>, <<66,226,212,241>>, <<248,179,221,104>>, <<110,131,218,31>>,
    <<205,22,190,129>>, <<91,38,185,246>>, <<225,119,176,111>>, <<119,71,183,24>>,
    <<230,90,8,136>>, <<112,106,15,255>>, <<202,59,6,102>>, <<92,11,1,17>>,
    <<255,158,101,143>>, <<105,174,98,248>>, <<211,255,107,97>>, <<69,207,108,22>>,
    <<120,226,10,160>>, <<238,210,13,215>>, <<84,131,4,78>>, <<194,179,3,57>>,
    <<97,38,103,167>>, <<247,22,96,208>>, <<77,71,105,73>>, <<219,119,110,62>>,
    <<74,106,209,174>>, <<220,90,214,217>>, <<102,11,223,64>>, <<240,59,216,55>>,
    <<83,174,188,169>>, <<197,158,187,222>>, <<127,207,178,71>>, <<233,255,181,48>>,
    <<28,242,189,189>>, <<138,194,186,202>>, <<48,147,179,83>>, <<166,163,180,36>>,
    <<5,54,208,186>>, <<147,6,215,205>>, <<41,87,222,84>>, <<191,103,217,35>>,
    <<46,122,102,179>>, <<184,74,97,196>>, <<2,27,104,93>>, <<148,43,111,42>>,
    <<55,190,11,180>>, <<161,142,12,195>>, <<27,223,5,90>>, <<141,239,2,45>> >>

\* one round of the loop in calculateCRC32
crc32Step(crc, byte) ==
    LET index == Xor8(crc[1], byte)
    IN  Xor32(<<crc[2], crc[3], crc[4], 0>>, crc32_table[index + 1])

RECURSIVE crc32Loop(_, _, _, _)
\* the loop of calculateCRC32 over data[lo..hi], in index order
crc32Loop(crc, data, lo, hi) ==
    IF lo > hi THEN crc
    ELSE IF lo = hi THEN crc32Step(crc, data[lo])
    ELSE LET half == crc32Loop(crc, data, lo, (lo + hi) \div 2)
         IN  IF half[1] \in Byte
             THEN crc32Loop(half, data, ((lo + hi) \div 2) + 1, hi)
             ELSE half

\* calculateCRC32 of a sequence of bytes
calculateCRC32(data) ==
    Xor32(crc32Loop(<<255, 255, 255, 255>>, data, 1, Len(data)), <<255, 255, 255, 255>>)

(***************************************************************************)
(* Firmware configuration (config.h, radiation.h, lora.cpp, image.h,       *)
(* accel.h, accel.cpp, loop.cpp).  Times are milliseconds.                 *)
(***************************************************************************)
\* MissionState
STATE_BOOT == 0
STATE_WAIT_DEPLOY == 1
STATE_DEPLOYING == 2
STATE_DEPLOY_COOLING == 3
STATE_OPERATIONAL == 4
STATE_TRANSMITTING == 5
STATE_ERROR == 6

\* AntennaState
ANT_IDLE == 0
ANT_HEATING == 1
ANT_COOLING == 2
ANT_RETRY_WAIT == 3
ANT_COMPLETE == 4

\* ImageTransferState
IMG_IDLE == 0
IMG_RECEIVING == 1
IMG_COMPLETE == 2
IMG_ERROR == 3

\* AccelRecordingState
ACCEL_IDLE == 0
ACCEL_RECORDING == 1
ACCEL_COMPLETE == 2
ACCEL_ERROR == 3

DEPLOY_WAIT_TIME == 300000
DEPLOY_HEAT_TIME == 90000
DEPLOY_COOL_TIME == 90000
DEPLOY_RETRY_WAIT == 900000
DEPLOY_MAX_RETRIES == 3
STATUS_INTERVAL == 60000
BEACON_INTERVAL_NO_CONTACT == 60000
BEACON_INTERVAL_NORMAL == 3600000
BEACON_INTERVAL_LOST == 300000
BEACON_LOST_THRESHOLD == 86400000
RECOVERY_INTERVAL == 5000
SCRUB_INTERVAL == 10000

EEPROM_MAGIC == 171
EEPROM_ADDR_MAGIC == 0
EEPROM_ADDR_STATE == 1
EEPROM_ADDR_BOOTCOUNT == 2
EEPROM_ADDR_DEPLOY_OK == 6
EEPROM_ADDR_MISSION_START == 7
EEPROM_CRC_OFFSET == 100
EEPROM_FIRST_ACCEL_ADDR == 200

MAX_INIT_RETRIES == 5
MAX_TX_RETRIES == 3

IMAGE_MAX_SIZE == 8192
IMAGE_CHUNK_SIZE == 128
IMAGE_MAX_CHUNKS == 64
IMAGE_TIMEOUT_MS == 60000

ACCEL_SAMPLE_RATE == 30
ACCEL_DURATION_SEC == 60
ACCEL_TOTAL_SAMPLES == ACCEL_SAMPLE_RATE * ACCEL_DURATION_SEC
ACCEL_VERSION == 1
ACCEL_HEADER_SIZE == 16
SAMPLE_INTERVAL_MS == 1000 \div ACCEL_SAMPLE_RATE
PROGRESS_INTERVAL_MS == 10000

\* "/temp_image.bin"
TEMP_IMAGE_FILE ==
    <<"/", "t", "e", "m", "p", "_", "i", "m", "a", "g", "e", ".", "b", "i", "n">>

(***************************************************************************)
(* The environment of one handler run: what the hardware answers.          *)
(*   AntSwitch     level read from the deployment switch                   *)
(*   lowBattery    readBatteryVoltage gives 0 < VT < minimum               *)
(*   txBegin       how many radio.begin(LORA_FREQ_TX) attempts fail        *)
(*   transmit      status of radio.transmit                                *)
(*   rxBegin       radio.begin(LORA_FREQ_RX) in returnToReceive succeeds   *)
(*   startReceive  radio.startReceive succeeds                             *)
(*   initBegin     how many radio.begin attempts fail in startRadio        *)
(*   readData      radio.readData succeeds                                 *)
(*   imu, sd       imu.begin / SD.begin succeed (setup)                    *)
(*   fsOk          the card has space, and write and rename succeed        *)
(*   fileOpen      SD.open succeeds                                        *)
(*   truncates     opening an existing file with FILE_WRITE empties it     *)
(*                 (decided by the SD library of the build)                *)
(***************************************************************************)
Nominal ==
    [AntSwitch |-> "HIGH", lowBattery |-> FALSE, txBegin |-> 0, transmit |-> "NONE",
     rxBegin |-> TRUE, startReceive |-> TRUE, initBegin |-> 0, readData |-> TRUE,
     imu |-> TRUE, sd |-> TRUE, fsOk |-> TRUE, fileOpen |-> TRUE, truncates |-> FALSE]

TransmitStatus == {"NONE", "PACKET_TOO_LONG", "TX_TIMEOUT", "OTHER"}

\* every answer the radio can give during sendMessage and recoverRadio
RadioEnvs ==
    {[Nominal EXCEPT !.txBegin = b, !.transmit = t, !.rxBegin = r,
                     !.startReceive = q, !.initBegin = i] :
        b \in 0..MAX_TX_RETRIES, t \in TransmitStatus, r \in BOOLEAN, q \in BOOLEAN,
        i \in {0, MAX_INIT_RETRIES}}
(***************************************************************************)
(* The firmware state as one record s: a field per global (config.cpp,     *)
(* radiation.cpp, loop.cpp, image.cpp, accel.cpp), the hardware the        *)
(* firmware drives (EEPROM, SD card, radio, pin R1), and per handler run   *)
(*   s.env   the answers of the hardware during this run                   *)
(*   s.ret   the return value of the last call                             *)
(*   s.sent  the messages handed to sendMessage during this run            *)
(*   s.pc    "loop", or "setup" once the chip is reset (ESP.restart)       *)
(*   s.loaded  what loadStateWithCRC returned in this boot                 *)
(***************************************************************************)
\* (uint16_t)n
U16(n) == n % 65536

\* EEPROM cells the firmware uses; a cell never written holds 0xFF
EEPROM_Cells == (0..(EEPROM_CRC_OFFSET + 3)) \cup {EEPROM_FIRST_ACCEL_ADDR}

Erased == [a \in EEPROM_Cells |-> 255]

\* EEPROM.put / EEPROM.get of a uint32_t
EEPROM_put(eeprom, addr, word) ==
    [a \in EEPROM_Cells |->
        IF a \in addr..(addr + 3) THEN word[a - addr + 1] ELSE eeprom[a]]

EEPROM_get(eeprom, addr) ==
    <<eeprom[addr], eeprom[addr + 1], eeprom[addr + 2], eeprom[addr + 3]>>

\* initImageTransfer: the idle transfer context
IdleTransfer ==
    [state |-> IMG_IDLE, filename |-> <<>>, totalChunks |-> 0, receivedChunks |-> 0,
     expectedSize |-> 0, currentSize |-> 0, lastChunkTime |-> 0,
     chunkReceived |-> [i \in 0..(IMAGE_MAX_CHUNKS - 1) |-> FALSE]]

\* the recording context with every field zero, and the closed file handle
IdleRecording ==
    [state |-> ACCEL_IDLE, filename |-> <<>>, samplesRecorded |-> 0, startTime |-> 0,
     lastSampleTime |-> 0, lastProgressTime |-> 0]

ClosedFile == [open |-> FALSE, pos |-> 0]

\* the globals as their initialisers leave them after a reset; EEPROM and SD
\* card keep their contents, the radio is unconfigured, pin R1 is not driven
PowerOn(eeprom, sd) ==
    [now |-> 0, pc |-> "setup", env |-> Nominal, ret |-> FALSE, sent |-> <<>>,
     loaded |-> FALSE,
     currentState |-> STATE_BOOT, antennaState |-> ANT_IDLE, stateStartTime |-> 0,
     missionStartTime |-> U32(0), bootCount |-> U32(0),
     deployRetryCount |-> 0, antennaDeployed |-> FALSE,
     groundContactEstablished |-> FALSE, lastGroundContact |-> 0, lastBeaconTime |-> 0,
     IMUOK |-> TRUE, RFOK |-> TRUE, SDOK |-> FALSE, contE |-> 0, contR |-> 0,
     receivedFlag |-> FALSE, packet |-> <<>>,
     tmr_missionState |-> tmrWrite(0), tmr_antennaState |-> tmrWrite(0),
     tmr_antennaDeployed |-> tmrWrite(FALSE), tmr_groundContact |-> tmrWrite(FALSE),
     tmr_rfOK |-> tmrWrite(FALSE), tmr_imuOK |-> tmrWrite(FALSE),
     tmr_sdOK |-> tmrWrite(FALSE), tmr_bootCount |-> tmrWrite(U32(0)),
     seuCorrectionsTotal |-> 0, lastScrubTime |-> 0,
     lastTelemetryTime |-> 0, lastRecoveryAttempt |-> 0,
     imageTransfer |-> IdleTransfer,
     accelRecording |-> IdleRecording, accelFile |-> ClosedFile,
     firstAccelRecordingDone |-> FALSE,
     EEPROM |-> eeprom, SD |-> sd,
     radio |-> [freq |-> "NONE", receiving |-> FALSE], R1 |-> "LOW"]

(***************************************************************************)
(* Radio link (lora.cpp)                                                   *)
(***************************************************************************)
\* radio.begin(freq, ...): the chip is reset and, on success, tuned to freq in
\* standby
radioBegin(s, freq, ok) ==
    [s EXCEPT !.radio = [freq |-> IF ok THEN freq ELSE "NONE", receiving |-> FALSE]]

\* radio.startReceive()
radioStartReceive(s, ok) ==
    IF ok
    THEN [s EXCEPT !.radio.receiving = TRUE, !.RFOK = TRUE, !.contR = 0, !.ret = TRUE]
    ELSE [s EXCEPT !.RFOK = FALSE, !.contR = @ + 1, !.ret = FALSE]

\* returnToReceive without the final startReceive
returnToReceive_standby(s) ==
    IF ~s.env.rxBegin
    THEN [radioBegin(s, "RX", FALSE) EXCEPT !.RFOK = FALSE, !.contR = @ + 1, !.ret = FALSE]
    ELSE [radioBegin(s, "RX", TRUE) EXCEPT !.RFOK = TRUE, !.contR = 0, !.ret = TRUE]

\* returnToReceive
returnToReceive(s) ==
    IF ~s.env.rxBegin
    THEN [radioBegin(s, "RX", FALSE) EXCEPT !.RFOK = FALSE, !.contR = @ + 1, !.ret = FALSE]
    ELSE radioStartReceive(radioBegin(s, "RX", TRUE), s.env.startReceive)

\* startRadio
startRadio(s) ==
    IF s.env.initBegin >= MAX_INIT_RETRIES
    THEN [radioBegin(s, "RX", FALSE) EXCEPT
             !.RFOK = FALSE, !.contR = MAX_INIT_RETRIES, !.ret = FALSE]
    ELSE radioStartReceive(radioBegin(s, "RX", TRUE), s.env.startReceive)

\* sendMessage
sendMessage(s, message) ==
    LET handed == [s EXCEPT !.sent = Append(@, message)]
    IN  IF s.env.txBegin >= MAX_TX_RETRIES
        THEN [returnToReceive([radioBegin(handed, "TX", FALSE) EXCEPT
                                  !.RFOK = FALSE, !.contE = MAX_TX_RETRIES])
                  EXCEPT !.ret = FALSE]
        ELSE LET tx == radioBegin(handed, "TX", TRUE)
             IN  IF s.env.transmit = "NONE"
                 THEN [returnToReceive([tx EXCEPT !.contE = 0]) EXCEPT !.ret = TRUE]
                 ELSE IF s.env.transmit = "PACKET_TOO_LONG"
                 THEN [returnToReceive(tx) EXCEPT !.ret = FALSE]
                 ELSE [returnToReceive([tx EXCEPT !.contE = @ + 1]) EXCEPT !.ret = FALSE]

RECURSIVE sendAll(_, _)
\* sendMessage for each message of a list, in order
sendAll(s, messages) ==
    IF messages = <<>> THEN s
    ELSE sendAll(sendMessage(s, Head(messages)), Tail(messages))

\* radioNeedsRecovery
radioNeedsRecovery(s) == s.contR > 5 \/ s.contE > 5 \/ ~s.RFOK

\* recoverRadio
recoverRadio(s) == startRadio([s EXCEPT !.contR = 0, !.contE = 0])
(***************************************************************************)
(* Radiation store (radiation.cpp, config.cpp): checkpoint and scrubbing   *)
(***************************************************************************)
\* the sync of the replicated cells back to the plain variables
syncFromTMR(s) ==
    [s EXCEPT !.currentState = tmrRead(s.tmr_missionState),
              !.antennaState = tmrRead(s.tmr_antennaState),
              !.antennaDeployed = tmrRead(s.tmr_antennaDeployed),
              !.groundContactEstablished = tmrRead(s.tmr_groundContact),
              !.RFOK = tmrRead(s.tmr_rfOK),
              !.IMUOK = tmrRead(s.tmr_imuOK),
              !.SDOK = tmrRead(s.tmr_sdOK),
              !.bootCount = tmrRead(s.tmr_bootCount)]

\* the bytes [0 .. EEPROM_CRC_OFFSET) the CRC is calculated over
crcBuffer(eeprom) == [i \in 1..EEPROM_CRC_OFFSET |-> eeprom[i - 1]]

\* saveStateWithCRC
saveStateWithCRC(s) ==
    LET t == syncFromTMR(s)
        fields ==
            EEPROM_put(
                [EEPROM_put(t.EEPROM, EEPROM_ADDR_BOOTCOUNT, t.bootCount) EXCEPT
                    ![EEPROM_ADDR_MAGIC] = EEPROM_MAGIC,
                    ![EEPROM_ADDR_STATE] = t.currentState,
                    ![EEPROM_ADDR_DEPLOY_OK] = IF t.antennaDeployed THEN 1 ELSE 0],
                EEPROM_ADDR_MISSION_START, t.missionStartTime)
        crc == calculateCRC32(crcBuffer(fields))
    IN  [t EXCEPT !.EEPROM = EEPROM_put(fields, EEPROM_CRC_OFFSET, crc)]

\* saveState updating the replicated cells only, the store left as it is
saveState_tmrOnly(s) ==
    syncFromTMR(
        [s EXCEPT !.tmr_missionState = tmrWrite(s.currentState),
                  !.tmr_antennaState = tmrWrite(s.antennaState),
                  !.tmr_antennaDeployed = tmrWrite(s.antennaDeployed),
                  !.tmr_groundContact = tmrWrite(s.groundContactEstablished),
                  !.tmr_rfOK = tmrWrite(s.RFOK),
                  !.tmr_imuOK = tmrWrite(s.IMUOK),
                  !.tmr_sdOK = tmrWrite(s.SDOK),
                  !.tmr_bootCount = tmrWrite(s.bootCount)])

\* saveState writing the store from the replicated cells as they are
saveState_storeOnly(s) == saveStateWithCRC(s)

\* saveState
saveState(s) ==
    saveStateWithCRC(
        [s EXCEPT !.tmr_missionState = tmrWrite(s.currentState),
                  !.tmr_antennaState = tmrWrite(s.antennaState),
                  !.tmr_antennaDeployed = tmrWrite(s.antennaDeployed),
                  !.tmr_groundContact = tmrWrite(s.groundContactEstablished),
                  !.tmr_rfOK = tmrWrite(s.RFOK),
                  !.tmr_imuOK = tmrWrite(s.IMUOK),
                  !.tmr_sdOK = tmrWrite(s.SDOK),
                  !.tmr_bootCount = tmrWrite(s.bootCount)])

\* loadStateWithCRC accepting every checkpoint that carries the magic byte
loadStateWithCRC_magicOnly(s) ==
    IF s.EEPROM[EEPROM_ADDR_MAGIC] # EEPROM_MAGIC
    THEN [s EXCEPT !.ret = FALSE]
    ELSE LET deployed == s.EEPROM[EEPROM_ADDR_DEPLOY_OK] = 1
             state == IF deployed THEN STATE_OPERATIONAL ELSE STATE_BOOT
         IN  [s EXCEPT !.ret = TRUE,
                       !.bootCount = EEPROM_get(s.EEPROM, EEPROM_ADDR_BOOTCOUNT),
                       !.antennaDeployed = deployed,
                       !.missionStartTime = EEPROM_get(s.EEPROM, EEPROM_ADDR_MISSION_START),
                       !.tmr_antennaDeployed = tmrWrite(deployed),
                       !.tmr_bootCount = tmrWrite(EEPROM_get(s.EEPROM, EEPROM_ADDR_BOOTCOUNT)),
                       !.currentState = state,
                       !.tmr_missionState = tmrWrite(state)]

\* loadStateWithCRC restoring the mission state byte as it was saved
loadStateWithCRC_savedState(s) ==
    IF s.EEPROM[EEPROM_ADDR_MAGIC] # EEPROM_MAGIC
    THEN [s EXCEPT !.ret = FALSE]
    ELSE IF EEPROM_get(s.EEPROM, EEPROM_CRC_OFFSET) # calculateCRC32(crcBuffer(s.EEPROM))
    THEN [s EXCEPT !.ret = FALSE]
    ELSE LET deployed == s.EEPROM[EEPROM_ADDR_DEPLOY_OK] = 1
         IN  [s EXCEPT !.ret = TRUE,
                       !.bootCount = EEPROM_get(s.EEPROM, EEPROM_ADDR_BOOTCOUNT),
                       !.antennaDeployed = deployed,
                       !.missionStartTime = EEPROM_get(s.EEPROM, EEPROM_ADDR_MISSION_START),
                       !.tmr_antennaDeployed = tmrWrite(deployed),
                       !.tmr_bootCount = tmrWrite(EEPROM_get(s.EEPROM, EEPROM_ADDR_BOOTCOUNT)),
                       !.currentState = s.EEPROM[EEPROM_ADDR_STATE],
                       !.tmr_missionState = tmrWrite(s.EEPROM[EEPROM_ADDR_STATE])]

\* loadStateWithCRC starting every boot in Boot, whatever the deployment flag
loadStateWithCRC_boot(s) ==
    IF s.EEPROM[EEPROM_ADDR_MAGIC] # EEPROM_MAGIC
    THEN [s EXCEPT !.ret = FALSE]
    ELSE IF EEPROM_get(s.EEPROM, EEPROM_CRC_OFFSET) # calculateCRC32(crcBuffer(s.EEPROM))
    THEN [s EXCEPT !.ret = FALSE]
    ELSE LET deployed == s.EEPROM[EEPROM_ADDR_DEPLOY_OK] = 1
         IN  [s EXCEPT !.ret = TRUE,
                       !.bootCount = EEPROM_get(s.EEPROM, EEPROM_ADDR_BOOTCOUNT),
                       !.antennaDeployed = deployed,
                       !.missionStartTime = EEPROM_get(s.EEPROM, EEPROM_ADDR_MISSION_START),
                       !.tmr_antennaDeployed = tmrWrite(deployed),
                       !.tmr_bootCount = tmrWrite(EEPROM_get(s.EEPROM, EEPROM_ADDR_BOOTCOUNT)),
                       !.currentState = STATE_BOOT,
                       !.tmr_missionState = tmrWrite(STATE_BOOT)]

\* loadStateWithCRC: magic, then CRC; the mission state is derived from the
\* antenna-deployed flag, the saved state byte is not used
loadStateWithCRC(s) ==
    IF s.EEPROM[EEPROM_ADDR_MAGIC] # EEPROM_MAGIC
    THEN [s EXCEPT !.ret = FALSE]
    ELSE IF EEPROM_get(s.EEPROM, EEPROM_CRC_OFFSET) # calculateCRC32(crcBuffer(s.EEPROM))
    THEN [s EXCEPT !.ret = FALSE]
    ELSE LET deployed == s.EEPROM[EEPROM_ADDR_DEPLOY_OK] = 1
             state == IF deployed THEN STATE_OPERATIONAL ELSE STATE_BOOT
         IN  [s EXCEPT !.ret = TRUE,
                       !.bootCount = EEPROM_get(s.EEPROM, EEPROM_ADDR_BOOTCOUNT),
                       !.antennaDeployed = deployed,
                       !.missionStartTime = EEPROM_get(s.EEPROM, EEPROM_ADDR_MISSION_START),
                       !.tmr_antennaDeployed = tmrWrite(deployed),
                       !.tmr_bootCount = tmrWrite(EEPROM_get(s.EEPROM, EEPROM_ADDR_BOOTCOUNT)),
                       !.currentState = state,
                       !.tmr_missionState = tmrWrite(state)]

\* tmrScrub of the eight replicated cells; .ret is the number of corrections
scrubCells(s) ==
    LET c1 == tmrScrub(s.tmr_missionState)
        c2 == tmrScrub(s.tmr_antennaState)
        c3 == tmrScrub(s.tmr_antennaDeployed)
        c4 == tmrScrub(s.tmr_groundContact)
        c5 == tmrScrub(s.tmr_rfOK)
        c6 == tmrScrub(s.tmr_imuOK)
        c7 == tmrScrub(s.tmr_sdOK)
        c8 == tmrScrub(s.tmr_bootCount)
        n(c) == IF c.corrected THEN 1 ELSE 0
    IN  [s EXCEPT !.tmr_missionState = c1.tmr, !.tmr_antennaState = c2.tmr,
                  !.tmr_antennaDeployed = c3.tmr, !.tmr_groundContact = c4.tmr,
                  !.tmr_rfOK = c5.tmr, !.tmr_imuOK = c6.tmr, !.tmr_sdOK = c7.tmr,
                  !.tmr_bootCount = c8.tmr,
                  !.ret = n(c1) + n(c2) + n(c3) + n(c4) + n(c5) + n(c6) + n(c7) + n(c8)]

\* scrubAllTMR
scrubAllTMR(s) ==
    LET t == scrubCells(s)
    IN  syncFromTMR([t EXCEPT !.seuCorrectionsTotal = @ + t.ret])

\* initRadiationProtection
initRadiationProtection(s) ==
    LET defaults ==
            [s EXCEPT !.tmr_missionState = tmrWrite(STATE_BOOT),
                      !.tmr_antennaState = tmrWrite(ANT_IDLE),
                      !.tmr_antennaDeployed = tmrWrite(FALSE),
                      !.tmr_groundContact = tmrWrite(FALSE),
                      !.tmr_rfOK = tmrWrite(TRUE),
                      !.tmr_imuOK = tmrWrite(TRUE),
                      !.tmr_sdOK = tmrWrite(FALSE),
                      !.tmr_bootCount = tmrWrite(U32(0))]
        loaded == loadStateWithCRC(defaults)
        count == IF loaded.ret THEN Inc32(loaded.bootCount) ELSE U32(1)
    IN  [loaded EXCEPT !.bootCount = count, !.tmr_bootCount = tmrWrite(count),
                       !.seuCorrectionsTotal = 0, !.lastScrubTime = s.now,
                       !.loaded = loaded.ret]

\* radiationProtectionTick
radiationProtectionTick(s) ==
    IF s.now - s.lastScrubTime >= SCRUB_INTERVAL
    THEN [scrubAllTMR(s) EXCEPT !.lastScrubTime = s.now]
    ELSE s
(***************************************************************************)
(* SD card (memor.cpp, SD library): a file system is a function from the   *)
(* paths that exist to file contents, a file content a function from byte  *)
(* offsets to bytes.                                                       *)
(***************************************************************************)
\* SD.remove
SD_remove(sd, path) == [p \in (DOMAIN sd) \ {path} |-> sd[p]]

\* SD.open(path, FILE_WRITE) followed by close: the file exists afterwards
SD_create(sd, path, truncates) ==
    IF path \in DOMAIN sd /\ ~truncates THEN sd ELSE (path :> <<>>) @@ sd

\* seek(pos) and write(bytes) on the file at path
SD_writeAt(sd, path, pos, bytes) ==
    (path :> ([o \in pos..(pos + Len(bytes) - 1) |-> bytes[o - pos + 1]] @@ sd[path])) @@ sd

\* File::size: one more than the highest offset written
SD_size(file) ==
    IF DOMAIN file = {} THEN 0
    ELSE 1 + CHOOSE o \in DOMAIN file : \A q \in DOMAIN file : q <= o

\* SD.rename
SD_rename(sd, from, to) == (to :> sd[from]) @@ SD_remove(sd, from)

\* isSDAvailable
isSDAvailable(s) ==
    IF ~s.SDOK
    THEN [sendMessage(s, <<"ERR:SD_NOT_AVAILABLE">>) EXCEPT !.ret = FALSE]
    ELSE [s EXCEPT !.ret = TRUE]

(***************************************************************************)
(* Accelerometer recording on first contact (accel.cpp)                    *)
(***************************************************************************)
\* the bytes of a uint16_t, low byte first
U16Bytes(n) == <<n % 256, (n \div 256) % 256>>

\* the 16-byte header of a recording: "ACCEL30", the version, the sample rate
\* and the sample count, zero padding
AccelHeader ==
    <<CodeOf["A"], CodeOf["C"], CodeOf["C"], CodeOf["E"], CodeOf["L"], CodeOf["3"],
      CodeOf["0"], ACCEL_VERSION>>
        \o U16Bytes(ACCEL_SAMPLE_RATE) \o U16Bytes(ACCEL_TOTAL_SAMPLES)
        \o <<0, 0, 0, 0>>

\* an AccelSample as the IMU at rest gives it: x = 1.0 g, y = z = 0.0 g, three
\* little-endian IEEE-754 floats
AccelSample == <<0, 0, 128, 63, 0, 0, 0, 0, 0, 0, 0, 0>>

\* accelFile.write(bytes): the bytes go to the write position of the handle
accelFileWrite(s, bytes) ==
    [s EXCEPT !.SD = SD_writeAt(s.SD, s.accelRecording.filename, s.accelFile.pos, bytes),
              !.accelFile.pos = @ + Len(bytes)]

\* accelStartRecording: the checks in their order, each failing check with
\* its answer; .ret is the return value
accelStartRecording(s) ==
    LET filename == <<"/accel/rec_", ToString(s.now), ".bin">>
        opened == [s EXCEPT !.accelRecording.filename = filename,
                            !.SD = SD_create(s.SD, filename, s.env.truncates),
                            !.accelFile = [open |-> TRUE, pos |-> 0]]
        error ==
            IF s.accelRecording.state = ACCEL_RECORDING THEN "ERR:ACCEL_BUSY"
            ELSE IF ~s.SDOK THEN "ERR:SD_NOT_AVAILABLE"
            ELSE IF ~s.IMUOK THEN "ERR:IMU_NOT_AVAILABLE"
            ELSE IF ~s.env.fsOk THEN "ERR:SD_FULL"
            ELSE IF ~s.env.fileOpen THEN "ERR:ACCEL_FILE_ERROR"
            ELSE IF ~s.env.fsOk THEN "ERR:ACCEL_WRITE_ERROR"
            ELSE "none"
        after ==
            IF error = "ERR:ACCEL_FILE_ERROR"
            THEN [s EXCEPT !.accelRecording.filename = filename]
            ELSE IF error = "ERR:ACCEL_WRITE_ERROR"
            THEN [opened EXCEPT !.SD = SD_remove(opened.SD, filename),
                                !.accelFile = ClosedFile]
            ELSE IF error = "none"
            THEN [accelFileWrite(opened, AccelHeader) EXCEPT
                     !.accelRecording.state = ACCEL_RECORDING,
                     !.accelRecording.samplesRecorded = 0,
                     !.accelRecording.startTime = s.now,
                     !.accelRecording.lastSampleTime = 0,
                     !.accelRecording.lastProgressTime = s.now]
            ELSE s
        answer == IF error = "none"
                  THEN <<"OK:ACCEL_RECORDING:", ToString(ACCEL_DURATION_SEC), "s">>
                  ELSE <<error>>
    IN  [sendMessage(after, answer) EXCEPT !.ret = (error = "none")]

\* the end of accelRecordingTick: the file is closed and the recorder idle
\* when the last sample is written
accelComplete(s) ==
    IF s.accelRecording.samplesRecorded >= ACCEL_TOTAL_SAMPLES
    THEN [sendMessage([s EXCEPT !.accelFile.open = FALSE],
                      <<"OK:ACCEL_COMPLETE:">> \o s.accelRecording.filename
                          \o <<":", ToString(ACCEL_HEADER_SIZE
                                        + s.accelRecording.samplesRecorded * Len(AccelSample)),
                               "B">>)
              EXCEPT !.accelRecording.state = ACCEL_IDLE]
    ELSE s

\* the sample of accelRecordingTick: it is written and counted, and a progress
\* message is sent when ten seconds have passed since the last one
accelSample(s) ==
    LET sampled == [accelFileWrite(s, AccelSample) EXCEPT
                       !.accelRecording.samplesRecorded = U16(@ + 1),
                       !.accelRecording.lastSampleTime = s.now]
        percent == (sampled.accelRecording.samplesRecorded * 100) \div ACCEL_TOTAL_SAMPLES
    IN  IF ~s.env.fsOk
        THEN sendMessage([s EXCEPT !.accelFile.open = FALSE,
                                   !.accelRecording.state = ACCEL_ERROR],
                         <<"ERR:ACCEL_WRITE_FAILED">>)
        ELSE IF s.now - s.accelRecording.lastProgressTime >= PROGRESS_INTERVAL_MS
        THEN accelComplete(
                 [sendMessage(sampled, <<"ACCEL:PROGRESS:", ToString(percent), "%">>)
                     EXCEPT !.accelRecording.lastProgressTime = s.now])
        ELSE accelComplete(sampled)

\* accelRecordingTick taking a sample on every call
accelRecordingTick_everyCall(s) ==
    IF s.accelRecording.state # ACCEL_RECORDING THEN s ELSE accelSample(s)

\* accelRecordingTick
accelRecordingTick(s) ==
    IF s.accelRecording.state # ACCEL_RECORDING THEN s
    ELSE IF s.now - s.accelRecording.lastSampleTime < SAMPLE_INTERVAL_MS THEN s
    ELSE accelSample(s)

\* checkFirstContactRecording without the once-per-lifetime check
checkFirstContactRecording_everyBoot(s) ==
    IF s.accelRecording.state = ACCEL_RECORDING THEN s
    ELSE LET started == accelStartRecording(s)
         IN  IF started.ret
             THEN [started EXCEPT !.firstAccelRecordingDone = TRUE,
                                  !.EEPROM[EEPROM_FIRST_ACCEL_ADDR] = 170]
             ELSE started

\* checkFirstContactRecording
checkFirstContactRecording(s) ==
    IF s.firstAccelRecordingDone \/ s.accelRecording.state = ACCEL_RECORDING THEN s
    ELSE LET started == accelStartRecording(s)
         IN  IF started.ret
             THEN [started EXCEPT !.firstAccelRecordingDone = TRUE,
                                  !.EEPROM[EEPROM_FIRST_ACCEL_ADDR] = 170]
             ELSE started

\* initAccelRecording (the directory /accel it creates is not tracked)
initAccelRecording(s) ==
    [s EXCEPT !.accelRecording = IdleRecording,
              !.firstAccelRecordingDone = (s.EEPROM[EEPROM_FIRST_ACCEL_ADDR] = 170)]

(***************************************************************************)
(* Beacon scheduler (config.cpp)                                           *)
(***************************************************************************)
\* an unsigned long (32 bits) as its two 16-bit halves, high half first
Half == 65536
Word(n) == <<n \div Half, n % Half>>

\* a - b on unsigned long: the difference modulo 2^32
WordSub(a, b) ==
    LET borrow == IF a[2] < b[2] THEN 1 ELSE 0
    IN  <<(a[1] - b[1] - borrow + 2 * Half) % Half, (a[2] - b[2] + Half) % Half>>

\* a > b on unsigned long
WordGt(a, b) == a[1] > b[1] \/ (a[1] = b[1] /\ a[2] > b[2])

\* getBeaconInterval with the threshold reached already at 24 h
beaconInterval_atThreshold(contact, nowW, lastW) ==
    IF ~contact THEN BEACON_INTERVAL_NO_CONTACT
    ELSE IF ~WordGt(Word(BEACON_LOST_THRESHOLD), WordSub(nowW, lastW))
    THEN BEACON_INTERVAL_LOST
    ELSE BEACON_INTERVAL_NORMAL

\* getBeaconInterval on the contact flag, millis() and lastGroundContact
beaconInterval(contact, nowW, lastW) ==
    IF ~contact THEN BEACON_INTERVAL_NO_CONTACT
    ELSE IF WordGt(WordSub(nowW, lastW), Word(BEACON_LOST_THRESHOLD))
    THEN BEACON_INTERVAL_LOST
    ELSE BEACON_INTERVAL_NORMAL

\* getBeaconInterval
getBeaconInterval(s) ==
    beaconInterval(s.groundContactEstablished, Word(s.now), Word(s.lastGroundContact))

\* registerGroundContact
registerGroundContact(s) ==
    LET isFirstContact == ~s.groundContactEstablished
        t == [s EXCEPT !.groundContactEstablished = TRUE, !.lastGroundContact = s.now]
    IN  IF isFirstContact THEN checkFirstContactRecording(t) ELSE t

\* the mode sendBeacon chooses on the contact flag, millis() and
\* lastGroundContact
beaconMode(contact, nowW, lastW) ==
    IF ~contact THEN "BEACON_MSG_SEARCHING"
    ELSE IF WordGt(WordSub(nowW, lastW), Word(BEACON_LOST_THRESHOLD))
    THEN "BEACON_MSG_LOST"
    ELSE "BEACON_MSG_CONNECTED"

\* the beacon text: its mode and its contact field
beaconMessage(s) ==
    <<beaconMode(s.groundContactEstablished, Word(s.now), Word(s.lastGroundContact)),
      IF s.groundContactEstablished THEN "|C:YES" ELSE "|C:NO">>

\* sendBeacon
sendBeacon(s) ==
    IF s.env.lowBattery THEN [s EXCEPT !.lastBeaconTime = s.now]
    ELSE [sendMessage(s, beaconMessage(s)) EXCEPT !.lastBeaconTime = s.now]

\* sendTelemetry (the line it appends to /log.txt is not tracked)
sendTelemetry(s) == sendMessage(s, <<"TELEMETRY">>)
(***************************************************************************)
(* Image uploader (image.cpp)                                              *)
(***************************************************************************)
RECURSIVE atol(_, _, _)
\* the digits of str from position i on, accumulated as atol does
atol(str, i, acc) ==
    IF i > Len(str) \/ CodeOf[str[i]] < CodeOf["0"] \/ CodeOf[str[i]] > CodeOf["9"]
    THEN acc
    ELSE atol(str, i + 1, 10 * acc + (CodeOf[str[i]] - CodeOf["0"]))

\* String::toInt: leading blanks, an optional sign, then digits; 0 if none
toInt(str) ==
    LET blanks == {i \in 0..Len(str) : \A j \in 1..i : str[j] = " "}
        start == 1 + CHOOSE i \in blanks : \A j \in blanks : j <= i
    IN  IF start <= Len(str) /\ str[start] = "-" THEN 0 - atol(str, start + 1, 0)
        ELSE IF start <= Len(str) /\ str[start] = "+" THEN atol(str, start + 1, 0)
        ELSE atol(str, start, 0)

\* base64_table: the value of a character, 64 for a character outside the
\* alphabet
base64_table(c) ==
    LET code == CodeOf[c]
    IN  IF code >= CodeOf["A"] /\ code <= CodeOf["Z"] THEN code - CodeOf["A"]
        ELSE IF code >= CodeOf["a"] /\ code <= CodeOf["z"] THEN code - CodeOf["a"] + 26
        ELSE IF code >= CodeOf["0"] /\ code <= CodeOf["9"] THEN code - CodeOf["0"] + 52
        ELSE IF c = "+" THEN 62
        ELSE IF c = "/" THEN 63
        ELSE 64

\* the body of the loop of base64Decode for the character c; st holds the
\* bits that are collected and not yet written (buffer, bitsCollected), the
\* bytes written and whether the loop has ended
base64Step(st, c, maxOutputLen) ==
    IF st.ended \/ Len(st.output) >= maxOutputLen \/ c = "=" THEN [st EXCEPT !.ended = TRUE]
    ELSE IF base64_table(c) = 64 THEN st
    ELSE LET shifted == st.buffer * 64 + base64_table(c)
             bits == st.bitsCollected + 6
         IN  IF bits >= 8
             THEN [st EXCEPT !.buffer = shifted % (2 ^ (bits - 8)),
                             !.bitsCollected = bits - 8,
                             !.output = Append(@, (shifted \div (2 ^ (bits - 8))) % 256)]
             ELSE [st EXCEPT !.buffer = shifted, !.bitsCollected = bits]

RECURSIVE base64Loop(_, _, _, _, _)
\* the loop of base64Decode over the characters lo..hi of input, in their
\* order (the first half, then the second unless the loop has ended)
base64Loop(input, lo, hi, st, maxOutputLen) ==
    IF lo > hi THEN st
    ELSE IF lo = hi THEN base64Step(st, input[lo], maxOutputLen)
    ELSE LET first == base64Loop(input, lo, (lo + hi) \div 2, st, maxOutputLen)
         IN  IF first.ended THEN first
             ELSE base64Loop(input, (lo + hi) \div 2 + 1, hi, first, maxOutputLen)

\* base64Decode: the decoded bytes (their number is the return value)
base64Decode(input, maxOutputLen) ==
    base64Loop(input, 1, Len(input),
               [buffer |-> 0, bitsCollected |-> 0, output |-> <<>>, ended |-> FALSE],
               maxOutputLen).output

\* imageStart
imageStart(s, filename, totalChunks, expectedSize) ==
    LET started ==
            [s EXCEPT !.imageTransfer =
                          [IdleTransfer EXCEPT
                              !.filename = SubSeq(filename, 1,
                                                  IF Len(filename) < 63 THEN Len(filename) ELSE 63),
                              !.totalChunks = totalChunks,
                              !.expectedSize = expectedSize,
                              !.lastChunkTime = s.now,
                              !.state = IMG_RECEIVING],
                      !.SD = SD_remove(s.SD, TEMP_IMAGE_FILE)]
    IN  IF s.imageTransfer.state = IMG_RECEIVING
        THEN [sendMessage(s, <<"ERR:IMG_BUSY">>) EXCEPT !.ret = FALSE]
        ELSE IF totalChunks = 0 \/ totalChunks > IMAGE_MAX_CHUNKS
        THEN [sendMessage(s, <<"ERR:IMG_INVALID_CHUNKS">>) EXCEPT !.ret = FALSE]
        ELSE IF expectedSize = 0 \/ expectedSize > IMAGE_MAX_SIZE
        THEN [sendMessage(s, <<"ERR:IMG_TOO_LARGE">>) EXCEPT !.ret = FALSE]
        ELSE IF ~s.SDOK
        THEN [sendMessage(s, <<"ERR:SD_NOT_AVAILABLE">>) EXCEPT !.ret = FALSE]
        ELSE IF ~s.env.fsOk
        THEN [sendMessage(s, <<"ERR:SD_FULL">>) EXCEPT !.ret = FALSE]
        ELSE IF ~s.env.fileOpen
        THEN [sendMessage([started EXCEPT !.imageTransfer.state = IMG_ERROR],
                          <<"ERR:IMG_FILE_ERROR">>) EXCEPT !.ret = FALSE]
        ELSE [sendMessage([started EXCEPT !.SD = (TEMP_IMAGE_FILE :> <<>>) @@ started.SD],
                          <<"OK:IMG_START:", ToString(totalChunks)>>) EXCEPT !.ret = TRUE]

\* imageChunk without the check for a chunk that was already received
imageChunk_noDuplicateCheck(s, chunkNum, base64Data) ==
    LET decoded == base64Decode(base64Data, IMAGE_CHUNK_SIZE + 10)
    IN  IF s.imageTransfer.state # IMG_RECEIVING
        THEN [sendMessage(s, <<"ERR:IMG_NOT_STARTED">>) EXCEPT !.ret = FALSE]
        ELSE IF chunkNum >= s.imageTransfer.totalChunks
        THEN [sendMessage(s, <<"ERR:IMG_INVALID_CHUNK">>) EXCEPT !.ret = FALSE]
        ELSE IF Len(decoded) <= 0
        THEN [sendMessage(s, <<"ERR:IMG_DECODE">>) EXCEPT !.ret = FALSE]
        ELSE IF ~s.env.fileOpen
        THEN [sendMessage(s, <<"ERR:IMG_FILE_ERROR">>) EXCEPT !.ret = FALSE]
        ELSE IF ~s.env.fsOk
        THEN [sendMessage([s EXCEPT !.SD = SD_create(s.SD, TEMP_IMAGE_FILE, s.env.truncates)],
                          <<"ERR:IMG_WRITE">>) EXCEPT !.ret = FALSE]
        ELSE [sendMessage(
                  [s EXCEPT !.imageTransfer.chunkReceived[chunkNum] = TRUE,
                            !.imageTransfer.receivedChunks = U16(@ + 1),
                            !.imageTransfer.currentSize = U16(@ + Len(decoded)),
                            !.imageTransfer.lastChunkTime = s.now,
                            !.SD = SD_writeAt(
                                       SD_create(s.SD, TEMP_IMAGE_FILE, s.env.truncates),
                                       TEMP_IMAGE_FILE, chunkNum * IMAGE_CHUNK_SIZE,
                                       decoded)],
                  <<"OK:IMG_CHUNK:", ToString(chunkNum), "/",
                    ToString(s.imageTransfer.totalChunks)>>) EXCEPT !.ret = TRUE]

\* imageChunk
imageChunk(s, chunkNum, base64Data) ==
    LET decoded == base64Decode(base64Data, IMAGE_CHUNK_SIZE + 10)
    IN  IF s.imageTransfer.state # IMG_RECEIVING
        THEN [sendMessage(s, <<"ERR:IMG_NOT_STARTED">>) EXCEPT !.ret = FALSE]
        ELSE IF chunkNum >= s.imageTransfer.totalChunks
        THEN [sendMessage(s, <<"ERR:IMG_INVALID_CHUNK">>) EXCEPT !.ret = FALSE]
        ELSE IF s.imageTransfer.chunkReceived[chunkNum]
        THEN [sendMessage(s, <<"OK:IMG_DUP:", ToString(chunkNum)>>) EXCEPT !.ret = TRUE]
        ELSE IF Len(decoded) <= 0
        THEN [sendMessage(s, <<"ERR:IMG_DECODE">>) EXCEPT !.ret = FALSE]
        ELSE IF ~s.env.fileOpen
        THEN [sendMessage(s, <<"ERR:IMG_FILE_ERROR">>) EXCEPT !.ret = FALSE]
        ELSE IF ~s.env.fsOk
        THEN [sendMessage([s EXCEPT !.SD = SD_create(s.SD, TEMP_IMAGE_FILE, s.env.truncates)],
                          <<"ERR:IMG_WRITE">>) EXCEPT !.ret = FALSE]
        ELSE [sendMessage(
                  [s EXCEPT !.imageTransfer.chunkReceived[chunkNum] = TRUE,
                            !.imageTransfer.receivedChunks = U16(@ + 1),
                            !.imageTransfer.currentSize = U16(@ + Len(decoded)),
                            !.imageTransfer.lastChunkTime = s.now,
                            !.SD = SD_writeAt(
                                       SD_create(s.SD, TEMP_IMAGE_FILE, s.env.truncates),
                                       TEMP_IMAGE_FILE, chunkNum * IMAGE_CHUNK_SIZE,
                                       decoded)],
                  <<"OK:IMG_CHUNK:", ToString(chunkNum), "/",
                    ToString(s.imageTransfer.totalChunks)>>) EXCEPT !.ret = TRUE]

RECURSIVE missingLoop(_, _, _, _)
\* the loop of imageEnd over the chunk indices from i on: the text that lists
\* the missing chunks, missingCount of them so far
missingLoop(transfer, i, missingCount, missing) ==
    IF ~(i < transfer.totalChunks /\ missingCount < 5) THEN missing
    ELSE IF ~transfer.chunkReceived[i]
    THEN missingLoop(transfer, i + 1, missingCount + 1,
                     missing \o (IF Len(missing) > 0 THEN <<",">> ELSE <<>>)
                             \o <<ToString(i)>>)
    ELSE missingLoop(transfer, i + 1, missingCount, missing)

RECURSIVE missingLoop_all(_, _, _)
\* the loop without its bound of five
missingLoop_all(transfer, i, missing) ==
    IF ~(i < transfer.totalChunks) THEN missing
    ELSE IF ~transfer.chunkReceived[i]
    THEN missingLoop_all(transfer, i + 1,
                         missing \o (IF Len(missing) > 0 THEN <<",">> ELSE <<>>)
                                 \o <<ToString(i)>>)
    ELSE missingLoop_all(transfer, i + 1, missing)

\* the text listing every missing chunk
missingChunks_all(transfer) == missingLoop_all(transfer, 0, <<>>)

\* the text imageEnd sends after "ERR:IMG_MISSING:"
missingChunks(transfer) == missingLoop(transfer, 0, 0, <<>>)

\* imageEnd
imageEnd(s) ==
    IF s.imageTransfer.state # IMG_RECEIVING
    THEN [sendMessage(s, <<"ERR:IMG_NOT_STARTED">>) EXCEPT !.ret = FALSE]
    ELSE IF s.imageTransfer.receivedChunks < s.imageTransfer.totalChunks
    THEN [sendMessage(s, <<"ERR:IMG_MISSING:">> \o missingChunks(s.imageTransfer))
              EXCEPT !.ret = FALSE]
    ELSE IF ~s.env.fsOk \/ TEMP_IMAGE_FILE \notin DOMAIN SD_remove(s.SD, s.imageTransfer.filename)
    THEN [sendMessage([s EXCEPT !.imageTransfer.state = IMG_ERROR,
                                !.SD = SD_remove(s.SD, s.imageTransfer.filename)],
                      <<"ERR:IMG_RENAME">>) EXCEPT !.ret = FALSE]
    ELSE [sendMessage(
              [s EXCEPT !.imageTransfer = IdleTransfer,
                        !.SD = SD_rename(SD_remove(s.SD, s.imageTransfer.filename),
                                         TEMP_IMAGE_FILE, s.imageTransfer.filename)],
              <<"OK:IMG_COMPLETE:">> \o s.imageTransfer.filename
                  \o <<":", ToString(s.imageTransfer.currentSize), "B">>)
              EXCEPT !.ret = TRUE]

\* imageCancel
imageCancel(s) ==
    IF s.imageTransfer.state = IMG_RECEIVING
    THEN [sendMessage([s EXCEPT !.SD = SD_remove(s.SD, TEMP_IMAGE_FILE)],
                      <<"OK:IMG_CANCELLED">>) EXCEPT !.imageTransfer = IdleTransfer]
    ELSE [s EXCEPT !.imageTransfer = IdleTransfer]

\* getImageStatus
getImageStatus(s) ==
    IF s.imageTransfer.state = IMG_IDLE THEN <<"IMG:IDLE">>
    ELSE IF s.imageTransfer.state = IMG_RECEIVING
    THEN <<"IMG:RX:", ToString(s.imageTransfer.receivedChunks), "/",
           ToString(s.imageTransfer.totalChunks)>>
    ELSE IF s.imageTransfer.state = IMG_COMPLETE THEN <<"IMG:COMPLETE">>
    ELSE <<"IMG:ERROR">>

\* imageTimeoutCheck
imageTimeoutCheck(s) ==
    IF s.imageTransfer.state = IMG_RECEIVING
           /\ s.now - s.imageTransfer.lastChunkTime > IMAGE_TIMEOUT_MS
    THEN imageCancel(sendMessage(s, <<"ERR:IMG_TIMEOUT">>))
    ELSE s
(***************************************************************************)
(* Command dispatch (loop.cpp, memor.cpp)                                  *)
(***************************************************************************)
\* the command names processMessage compares with, as Strings
Cmd ==
    [Status |-> <<"S", "t", "a", "t", "u", "s">>,
     Ping |-> <<"P", "i", "n", "g">>,
     ListDir |-> <<"L", "i", "s", "t", "D", "i", "r">>,
     CreateDir |-> <<"C", "r", "e", "a", "t", "e", "D", "i", "r">>,
     RemoveDir |-> <<"R", "e", "m", "o", "v", "e", "D", "i", "r">>,
     WriteFile |-> <<"W", "r", "i", "t", "e", "F", "i", "l", "e">>,
     AppendFile |-> <<"A", "p", "p", "e", "n", "d", "F", "i", "l", "e">>,
     ReadFile |-> <<"R", "e", "a", "d", "F", "i", "l", "e">>,
     RenameFile |-> <<"R", "e", "n", "a", "m", "e", "F", "i", "l", "e">>,
     DeleteFile |-> <<"D", "e", "l", "e", "t", "e", "F", "i", "l", "e">>,
     TestFileIO |-> <<"T", "e", "s", "t", "F", "i", "l", "e", "I", "O">>,
     MCURestart |-> <<"M", "C", "U", "R", "e", "s", "t", "a", "r", "t">>,
     GetState |-> <<"G", "e", "t", "S", "t", "a", "t", "e">>,
     ForceOperational |-> <<"F", "o", "r", "c", "e", "O", "p", "e", "r", "a", "t", "i", "o", "n", "a", "l">>,
     GetRadStatus |-> <<"G", "e", "t", "R", "a", "d", "S", "t", "a", "t", "u", "s">>,
     ImageStart |-> <<"I", "m", "a", "g", "e", "S", "t", "a", "r", "t">>,
     ImageChunk |-> <<"I", "m", "a", "g", "e", "C", "h", "u", "n", "k">>,
     ImageEnd |-> <<"I", "m", "a", "g", "e", "E", "n", "d">>,
     ImageCancel |-> <<"I", "m", "a", "g", "e", "C", "a", "n", "c", "e", "l">>,
     ImageStatus |-> <<"I", "m", "a", "g", "e", "S", "t", "a", "t", "u", "s">>]

\* the SD card commands (memor.cpp): the card check, then the operation and
\* its answer; a directory listing and a file read answer with their header
\* line, the test pattern TestFileIO writes is not tracked
memor(s, command, path, data) ==
    LET checked == isSDAvailable(s)
        bytes == [i \in 1..Len(data) |-> CodeOf[data[i]]]
        exists == path \in DOMAIN s.SD
        size == IF exists THEN Cardinality(DOMAIN s.SD[path]) ELSE 0
    IN  IF ~checked.ret THEN checked
        ELSE IF command = Cmd.ListDir
        THEN sendMessage(s, IF s.env.fileOpen THEN <<"DIR:">> \o path ELSE <<"ERR:OPEN_DIR_FAILED">>)
        ELSE IF command = Cmd.CreateDir
        THEN sendMessage(s, IF s.env.fsOk THEN <<"OK:DIR_CREATED:">> \o path ELSE <<"ERR:MKDIR_FAILED">>)
        ELSE IF command = Cmd.RemoveDir
        THEN sendMessage(s, IF s.env.fsOk THEN <<"OK:DIR_REMOVED">> ELSE <<"ERR:RMDIR_FAILED">>)
        ELSE IF command = Cmd.ReadFile
        THEN sendMessage(s, IF exists /\ s.env.fileOpen THEN <<"FILE:">> \o path
                            ELSE <<"ERR:OPEN_FILE_FAILED">>)
        ELSE IF command = Cmd.WriteFile
        THEN IF ~s.env.fsOk THEN sendMessage(s, <<"ERR:SD_FULL">>)
             ELSE IF ~s.env.fileOpen THEN sendMessage(s, <<"ERR:OPEN_FILE_FAILED">>)
             ELSE IF data = <<>>
             THEN sendMessage([s EXCEPT !.SD = SD_create(s.SD, path, s.env.truncates)],
                              <<"ERR:WRITE_FAILED">>)
             ELSE sendMessage([s EXCEPT !.SD = SD_writeAt(SD_create(s.SD, path, s.env.truncates),
                                                          path, 0, bytes)],
                              <<"OK:WRITTEN:", ToString(Len(data)), "B">>)
        ELSE IF command = Cmd.AppendFile
        THEN IF ~s.env.fsOk THEN sendMessage(s, <<"ERR:SD_FULL">>)
             ELSE IF ~s.env.fileOpen THEN sendMessage(s, <<"ERR:OPEN_FILE_FAILED">>)
             ELSE IF data = <<>>
             THEN sendMessage([s EXCEPT !.SD = SD_create(s.SD, path, FALSE)],
                              <<"ERR:APPEND_FAILED">>)
             ELSE sendMessage([s EXCEPT !.SD = SD_writeAt(SD_create(s.SD, path, FALSE),
                                                          path, size, bytes)],
                              <<"OK:APPENDED:", ToString(Len(data)), "B">>)
        ELSE IF command = Cmd.RenameFile
        THEN IF exists /\ s.env.fsOk
             THEN sendMessage([s EXCEPT !.SD = SD_rename(s.SD, path, data)], <<"OK:RENAMED">>)
             ELSE sendMessage(s, <<"ERR:RENAME_FAILED">>)
        ELSE IF command = Cmd.DeleteFile
        THEN IF exists /\ s.env.fsOk
             THEN sendMessage([s EXCEPT !.SD = SD_remove(s.SD, path)], <<"OK:DELETED">>)
             ELSE sendMessage(s, <<"ERR:DELETE_FAILED">>)
        ELSE IF ~(exists /\ s.env.fileOpen) THEN sendMessage(s, <<"ERR:TEST_OPEN_FAILED">>)
        ELSE sendAll(s, << <<"READ:", ToString(size), "B">>, <<"WRITE:131072B">> >>)
(***************************************************************************)
(* Mission loop (loop.cpp)                                                 *)
(***************************************************************************)
\* ESP.restart(): the rest of the handler does not run
restart(s) == [s EXCEPT !.pc = "setup"]

\* processMessage, the chain of comparisons that selects the handler of the
\* command and runs it
handler(t, command, path, data) ==
    LET colonIdx == indexOf(data, <<":">>)
    IN  IF command = Cmd.Status THEN sendTelemetry(t)
        ELSE IF command = Cmd.Ping THEN sendMessage(t, <<"PONG|">>)
        ELSE IF command \in {Cmd.ListDir, Cmd.CreateDir, Cmd.RemoveDir, Cmd.WriteFile,
                             Cmd.AppendFile, Cmd.ReadFile, Cmd.RenameFile,
                             Cmd.DeleteFile, Cmd.TestFileIO}
        THEN memor(t, command, path, data)
        ELSE IF command = Cmd.MCURestart
        THEN restart(saveState(sendMessage(t, <<"OK:RESTARTING">>)))
        ELSE IF command = Cmd.GetState
        THEN sendMessage(t, <<"STATE:", ToString(t.currentState),
                              "|BOOTS:", ToString(t.bootCount),
                              "|ANT:", IF t.antennaDeployed THEN "DEPLOYED" ELSE "PENDING">>)
        ELSE IF command = Cmd.ForceOperational
        THEN sendMessage(saveState([t EXCEPT !.antennaDeployed = TRUE,
                                             !.currentState = STATE_OPERATIONAL]),
                         <<"OK:FORCED_OPERATIONAL">>)
        ELSE IF command = Cmd.GetRadStatus
        THEN sendMessage(t, <<"RAD:SEU_TOTAL:", ToString(t.seuCorrectionsTotal),
                              "|LAST_SCRUB:", ToString((t.now - t.lastScrubTime) \div 1000),
                              "s_ago">>)
        ELSE IF command = Cmd.ImageStart
        THEN IF Len(path) = 0 THEN sendMessage(t, <<"ERR:IMG_NO_FILENAME">>)
             ELSE IF colonIdx = -1 THEN sendMessage(t, <<"ERR:IMG_INVALID_PARAMS">>)
             ELSE imageStart(t, path, U16(toInt(substring(data, 0, colonIdx))),
                             U16(toInt(substring(data, colonIdx + 1, Len(data)))))
        ELSE IF command = Cmd.ImageChunk
        THEN IF Len(data) = 0 THEN sendMessage(t, <<"ERR:IMG_EMPTY_CHUNK">>)
             ELSE imageChunk(t, U16(toInt(path)), data)
        ELSE IF command = Cmd.ImageEnd THEN imageEnd(t)
        ELSE IF command = Cmd.ImageCancel THEN imageCancel(t)
        ELSE IF command = Cmd.ImageStatus THEN sendMessage(t, getImageStatus(t))
        ELSE sendMessage(t, <<"ERR:UNKNOWN_CMD:">> \o command)

\* processMessage after validation with the ground contact registered after
\* the handler has run
dispatch_registerLast(s, command, path, data) ==
    registerGroundContact(handler(s, command, path, data))

\* processMessage after validation: registerGroundContact, then the handler
dispatch(s, command, path, data) ==
    handler(registerGroundContact(s), command, path, data)

\* processMessage
processMessage(s, message) ==
    LET v == validateMessage(message)
        answered == sendAll(s, v.sent)
    IN  IF ~v.ok THEN answered ELSE dispatch(answered, v.command, v.path, v.data)

\* the antenna is found deployed, the state not saved
antennaDeployedNow_unsaved(s) ==
    sendMessage([s EXCEPT !.antennaDeployed = TRUE,
                          !.antennaState = ANT_COMPLETE,
                          !.currentState = STATE_OPERATIONAL],
                <<"OK:ANTENNA_DEPLOYED|">>)

\* the antenna is found deployed: the end of four branches of
\* handleAntennaDeployment
antennaDeployedNow(s) ==
    sendMessage(saveState([s EXCEPT !.antennaDeployed = TRUE,
                                    !.antennaState = ANT_COMPLETE,
                                    !.currentState = STATE_OPERATIONAL]),
                <<"OK:ANTENNA_DEPLOYED|">>)

\* handleAntennaDeployment
handleAntennaDeployment(s) ==
    LET elapsed == s.now - s.stateStartTime
        released == s.env.AntSwitch = "LOW"
    IN  IF s.antennaState = ANT_IDLE
        THEN IF ~released
             THEN [s EXCEPT !.R1 = "HIGH", !.antennaState = ANT_HEATING,
                            !.stateStartTime = s.now]
             ELSE antennaDeployedNow([s EXCEPT !.R1 = "LOW"])
        ELSE IF s.antennaState = ANT_HEATING
        THEN LET heated == IF elapsed >= DEPLOY_HEAT_TIME
                           THEN [s EXCEPT !.R1 = "LOW", !.antennaState = ANT_COOLING,
                                          !.stateStartTime = s.now]
                           ELSE s
             IN  IF released THEN antennaDeployedNow([heated EXCEPT !.R1 = "LOW"])
                 ELSE heated
        ELSE IF s.antennaState = ANT_COOLING
        THEN IF elapsed < DEPLOY_COOL_TIME THEN s
             ELSE IF released THEN antennaDeployedNow(s)
             ELSE IF s.deployRetryCount + 1 >= DEPLOY_MAX_RETRIES
             THEN saveState([sendMessage([s EXCEPT !.deployRetryCount = @ + 1],
                                         <<"ERR:ANT_DEPLOY_FAILED|">>)
                                 EXCEPT !.currentState = STATE_OPERATIONAL])
             ELSE sendMessage([s EXCEPT !.deployRetryCount = @ + 1,
                                        !.antennaState = ANT_RETRY_WAIT,
                                        !.stateStartTime = s.now],
                              <<"WARN:ANT_RETRY_WAIT|">>)
        ELSE IF s.antennaState = ANT_RETRY_WAIT
        THEN LET waited == IF elapsed >= DEPLOY_RETRY_WAIT
                           THEN [s EXCEPT !.antennaState = ANT_IDLE, !.stateStartTime = s.now]
                           ELSE s
             IN  IF released THEN antennaDeployedNow(waited) ELSE waited
        ELSE s

\* the check for an incoming message with the flag left set
receive_keepFlag(s) ==
    IF ~s.receivedFlag THEN s
    ELSE IF ~s.env.readData THEN s
    ELSE processMessage(s, s.packet)

\* the check for an incoming message at the end of a pass of mainLoop
receive(s) ==
    IF ~s.receivedFlag THEN s
    ELSE IF ~s.env.readData THEN [s EXCEPT !.receivedFlag = FALSE]
    ELSE processMessage([s EXCEPT !.receivedFlag = FALSE], s.packet)

\* sendBeacon if the beacon interval has passed
beaconIfDue(s) ==
    IF s.now - s.lastBeaconTime >= getBeaconInterval(s) THEN sendBeacon(s) ELSE s

\* mainLoop, case STATE_OPERATIONAL, with the incoming message processed first
operational_receiveFirst(s) ==
    LET got == receive(s)
        entered == IF got.stateStartTime = 0
                   THEN [sendBeacon(got) EXCEPT !.stateStartTime = s.now,
                                                !.lastTelemetryTime = s.now,
                                                !.lastBeaconTime = s.now]
                   ELSE got
        beaconed == beaconIfDue(entered)
        reported == IF s.now - beaconed.lastTelemetryTime >= STATUS_INTERVAL
                    THEN [sendTelemetry(beaconed) EXCEPT !.lastTelemetryTime = s.now]
                    ELSE beaconed
        checked == imageTimeoutCheck(reported)
        recovered == recoverRadio(checked)
    IN  IF ~radioNeedsRecovery(checked) THEN checked
        ELSE IF recovered.ret THEN recovered
        ELSE restart(saveState(recovered))

\* mainLoop, case STATE_OPERATIONAL
operational(s) ==
    LET entered == IF s.stateStartTime = 0
                   THEN [sendBeacon(s) EXCEPT !.stateStartTime = s.now,
                                              !.lastTelemetryTime = s.now,
                                              !.lastBeaconTime = s.now]
                   ELSE s
        beaconed == beaconIfDue(entered)
        reported == IF s.now - beaconed.lastTelemetryTime >= STATUS_INTERVAL
                    THEN [sendTelemetry(beaconed) EXCEPT !.lastTelemetryTime = s.now]
                    ELSE beaconed
        checked == imageTimeoutCheck(reported)
        recovered == recoverRadio(checked)
    IN  IF ~radioNeedsRecovery(checked) THEN receive(checked)
        ELSE IF recovered.ret THEN receive(recovered)
        ELSE restart(saveState(recovered))

\* mainLoop: one pass at time s.now
mainLoop(s) ==
    LET t == radiationProtectionTick(s)
        recovered == recoverRadio(t)
    IN  IF t.currentState = STATE_BOOT
        THEN [t EXCEPT !.currentState = STATE_WAIT_DEPLOY, !.stateStartTime = s.now]
        ELSE IF t.currentState = STATE_WAIT_DEPLOY
        THEN receive(beaconIfDue(
                 IF s.now - t.stateStartTime >= DEPLOY_WAIT_TIME
                 THEN [t EXCEPT !.currentState = STATE_DEPLOYING,
                                !.antennaState = ANT_IDLE, !.stateStartTime = s.now]
                 ELSE t))
        ELSE IF t.currentState = STATE_DEPLOYING
        THEN receive(handleAntennaDeployment(t))
        ELSE IF t.currentState = STATE_OPERATIONAL
        THEN operational(t)
        ELSE IF t.currentState = STATE_ERROR
        THEN IF s.now - t.lastRecoveryAttempt < RECOVERY_INTERVAL THEN t
             ELSE IF recovered.ret
             THEN [recovered EXCEPT !.currentState = STATE_OPERATIONAL,
                                    !.stateStartTime = 0, !.lastRecoveryAttempt = s.now]
             ELSE [recovered EXCEPT !.lastRecoveryAttempt = s.now]
        ELSE t

\* setupGeneral with burn-wire pin R1 driven HIGH
setupGeneral_R1High(s) ==
    LET started == [s EXCEPT !.now = 1000]
        loaded == initRadiationProtection(started)
        pins == [loaded EXCEPT !.R1 = "HIGH"]
        devices == [pins EXCEPT !.IMUOK = s.env.imu, !.SDOK = s.env.sd]
        radioed == startRadio(devices)
    IN  [radioed EXCEPT !.now = 1500, !.pc = "loop"]

\* setupGeneral: the checkpoint is loaded (loadState, that is
\* initRadiationProtection), the pins are configured with R1 LOW, IMU, SD card
\* and radio are started.  The two delays make 1500 ms.
setupGeneral(s) ==
    LET started == [s EXCEPT !.now = 1000]
        loaded == initRadiationProtection(started)
        pins == [loaded EXCEPT !.R1 = "LOW"]
        devices == [pins EXCEPT !.IMUOK = s.env.imu, !.SDOK = s.env.sd]
        radioed == startRadio(devices)
    IN  [radioed EXCEPT !.now = 1500, !.pc = "loop"]

\* setup() of the sketch: setupGeneral, then the image transfer and recording
\* contexts are initialised (the persistent first-recording flag is read)
setup(s) == initAccelRecording([setupGeneral(s) EXCEPT !.imageTransfer = IdleTransfer])

\* the tick of the recorder after mainLoop has returned (ESP.restart does not
\* return)
recorderTick(t) == IF t.pc = "setup" THEN t ELSE accelRecordingTick(t)

\* loop() of the sketch: one pass of mainLoop, then the tick of the recorder
loop(s) == recorderTick(mainLoop(s))
(***************************************************************************)
(* Variables                                                               *)
(***************************************************************************)
VARIABLES
    \* a replicated cell under test (TMR<uint8_t>), as in test_tmr.cpp
    tmr_cell,       \* the three copies
    tmr_written,    \* the value of the last tmrWrite
    tmr_hit,        \* the copies upset since the last write or repairing scrub
    tmr_op,         \* the last operation applied to the cell
    tmr_readOut,    \* what the last tmrRead returned
    tmr_corrected,  \* what the last tmrScrub returned
    \* one message through the codec
    codec_frame,    \* the received message
    codec_done,     \* validateMessage has returned
    codec_verdict,  \* its outcome
    \* one evaluation of the beacon scheduler on a 32-bit clock
    beacon_now,       \* millis()
    beacon_last,      \* lastGroundContact
    beacon_contact,   \* groundContactEstablished
    beacon_done,      \* the scheduler has been evaluated
    beacon_interval,  \* what getBeaconInterval returned
    beacon_prefix,    \* the mode sendBeacon put in front of the beacon
    \* the firmware: the globals of the sources under their names, and
    now,    \* millis(): milliseconds since the reset
    pc,    \* "loop", or "setup" when the chip is reset and setup has to run
    sent,    \* the messages handed to sendMessage by the last handler run
    loaded,    \* what loadStateWithCRC returned in this boot
    currentState,
    antennaState,
    stateStartTime,
    missionStartTime,
    bootCount,
    deployRetryCount,
    antennaDeployed,
    groundContactEstablished,
    lastGroundContact,
    lastBeaconTime,
    IMUOK,
    RFOK,
    SDOK,
    contE,
    contR,
    receivedFlag,
    packet,    \* the packet radio.readData delivers
    tmr_missionState,
    tmr_antennaState,
    tmr_antennaDeployed,
    tmr_groundContact,
    tmr_rfOK,
    tmr_imuOK,
    tmr_sdOK,
    tmr_bootCount,
    seuCorrectionsTotal,
    lastScrubTime,
    lastTelemetryTime,
    lastRecoveryAttempt,
    imageTransfer,
    accelRecording,
    accelFile,    \* the file handle of the recording: open or not, write position
    firstAccelRecordingDone,
    EEPROM,    \* the cells of the EEPROM
    SD,    \* the files on the SD card
    radio,    \* the transceiver: tuned frequency and whether it is receiving
    R1,    \* level of the burn-wire output
    \* history of the run
    op,             \* the last handler that ran, with its inputs
    events          \* how many frames, resets and upsets the run has seen

tmrVars == <<tmr_cell, tmr_written, tmr_hit, tmr_op, tmr_readOut, tmr_corrected>>

codecVars == <<codec_frame, codec_done, codec_verdict>>

beaconVars ==
    <<beacon_now, beacon_last, beacon_contact, beacon_done, beacon_interval,
      beacon_prefix>>

fwVars ==
    <<now, pc, sent, loaded, currentState, antennaState, stateStartTime,
      missionStartTime, bootCount, deployRetryCount, antennaDeployed,
      groundContactEstablished, lastGroundContact, lastBeaconTime, IMUOK,
      RFOK, SDOK, contE, contR, receivedFlag, packet, tmr_missionState,
      tmr_antennaState, tmr_antennaDeployed, tmr_groundContact, tmr_rfOK,
      tmr_imuOK, tmr_sdOK, tmr_bootCount, seuCorrectionsTotal, lastScrubTime,
      lastTelemetryTime, lastRecoveryAttempt, imageTransfer, accelRecording,
      accelFile, firstAccelRecordingDone, EEPROM, SD, radio, R1,
      op, events>>

vars == <<tmrVars, codecVars, beaconVars, fwVars>>

\* the firmware state as a record (env and ret belong to a handler run)
Cur ==
    [now |-> now,
     pc |-> pc,
     sent |-> sent,
     loaded |-> loaded,
     currentState |-> currentState,
     antennaState |-> antennaState,
     stateStartTime |-> stateStartTime,
     missionStartTime |-> missionStartTime,
     bootCount |-> bootCount,
     deployRetryCount |-> deployRetryCount,
     antennaDeployed |-> antennaDeployed,
     groundContactEstablished |-> groundContactEstablished,
     lastGroundContact |-> lastGroundContact,
     lastBeaconTime |-> lastBeaconTime,
     IMUOK |-> IMUOK,
     RFOK |-> RFOK,
     SDOK |-> SDOK,
     contE |-> contE,
     contR |-> contR,
     receivedFlag |-> receivedFlag,
     packet |-> packet,
     tmr_missionState |-> tmr_missionState,
     tmr_antennaState |-> tmr_antennaState,
     tmr_antennaDeployed |-> tmr_antennaDeployed,
     tmr_groundContact |-> tmr_groundContact,
     tmr_rfOK |-> tmr_rfOK,
     tmr_imuOK |-> tmr_imuOK,
     tmr_sdOK |-> tmr_sdOK,
     tmr_bootCount |-> tmr_bootCount,
     seuCorrectionsTotal |-> seuCorrectionsTotal,
     lastScrubTime |-> lastScrubTime,
     lastTelemetryTime |-> lastTelemetryTime,
     lastRecoveryAttempt |-> lastRecoveryAttempt,
     imageTransfer |-> imageTransfer,
     accelRecording |-> accelRecording,
     accelFile |-> accelFile,
     firstAccelRecordingDone |-> firstAccelRecordingDone,
     EEPROM |-> EEPROM,
     SD |-> SD,
     radio |-> radio,
     R1 |-> R1,
     env |-> Nominal, ret |-> FALSE]

\* the firmware state becomes s
Set(s) ==
    /\ now' = s.now
    /\ pc' = s.pc
    /\ sent' = s.sent
    /\ loaded' = s.loaded
    /\ currentState' = s.currentState
    /\ antennaState' = s.antennaState
    /\ stateStartTime' = s.stateStartTime
    /\ missionStartTime' = s.missionStartTime
    /\ bootCount' = s.bootCount
    /\ deployRetryCount' = s.deployRetryCount
    /\ antennaDeployed' = s.antennaDeployed
    /\ groundContactEstablished' = s.groundContactEstablished
    /\ lastGroundContact' = s.lastGroundContact
    /\ lastBeaconTime' = s.lastBeaconTime
    /\ IMUOK' = s.IMUOK
    /\ RFOK' = s.RFOK
    /\ SDOK' = s.SDOK
    /\ contE' = s.contE
    /\ contR' = s.contR
    /\ receivedFlag' = s.receivedFlag
    /\ packet' = s.packet
    /\ tmr_missionState' = s.tmr_missionState
    /\ tmr_antennaState' = s.tmr_antennaState
    /\ tmr_antennaDeployed' = s.tmr_antennaDeployed
    /\ tmr_groundContact' = s.tmr_groundContact
    /\ tmr_rfOK' = s.tmr_rfOK
    /\ tmr_imuOK' = s.tmr_imuOK
    /\ tmr_sdOK' = s.tmr_sdOK
    /\ tmr_bootCount' = s.tmr_bootCount
    /\ seuCorrectionsTotal' = s.seuCorrectionsTotal
    /\ lastScrubTime' = s.lastScrubTime
    /\ lastTelemetryTime' = s.lastTelemetryTime
    /\ lastRecoveryAttempt' = s.lastRecoveryAttempt
    /\ imageTransfer' = s.imageTransfer
    /\ accelRecording' = s.accelRecording
    /\ accelFile' = s.accelFile
    /\ firstAccelRecordingDone' = s.firstAccelRecordingDone
    /\ EEPROM' = s.EEPROM
    /\ SD' = s.SD
    /\ radio' = s.radio
    /\ R1' = s.R1

\* the firmware state is s
Is(s) ==
    /\ now = s.now
    /\ pc = s.pc
    /\ sent = s.sent
    /\ loaded = s.loaded
    /\ currentState = s.currentState
    /\ antennaState = s.antennaState
    /\ stateStartTime = s.stateStartTime
    /\ missionStartTime = s.missionStartTime
    /\ bootCount = s.bootCount
    /\ deployRetryCount = s.deployRetryCount
    /\ antennaDeployed = s.antennaDeployed
    /\ groundContactEstablished = s.groundContactEstablished
    /\ lastGroundContact = s.lastGroundContact
    /\ lastBeaconTime = s.lastBeaconTime
    /\ IMUOK = s.IMUOK
    /\ RFOK = s.RFOK
    /\ SDOK = s.SDOK
    /\ contE = s.contE
    /\ contR = s.contR
    /\ receivedFlag = s.receivedFlag
    /\ packet = s.packet
    /\ tmr_missionState = s.tmr_missionState
    /\ tmr_antennaState = s.tmr_antennaState
    /\ tmr_antennaDeployed = s.tmr_antennaDeployed
    /\ tmr_groundContact = s.tmr_groundContact
    /\ tmr_rfOK = s.tmr_rfOK
    /\ tmr_imuOK = s.tmr_imuOK
    /\ tmr_sdOK = s.tmr_sdOK
    /\ tmr_bootCount = s.tmr_bootCount
    /\ seuCorrectionsTotal = s.seuCorrectionsTotal
    /\ lastScrubTime = s.lastScrubTime
    /\ lastTelemetryTime = s.lastTelemetryTime
    /\ lastRecoveryAttempt = s.lastRecoveryAttempt
    /\ imageTransfer = s.imageTransfer
    /\ accelRecording = s.accelRecording
    /\ accelFile = s.accelFile
    /\ firstAccelRecordingDone = s.firstAccelRecordingDone
    /\ EEPROM = s.EEPROM
    /\ SD = s.SD
    /\ radio = s.radio
    /\ R1 = s.R1
\* a handler run on the current state at time now + dt with the hardware
\* answering env; the list of sent messages starts empty
Run(dt, env) == [Cur EXCEPT !.now = now + dt, !.env = env, !.sent = <<>>]

\* the satellite before its first power-on: EEPROM erased, SD card empty
Factory == PowerOn(Erased, <<>>)

CodecIdle ==
    /\ codec_frame = <<>>
    /\ codec_done = FALSE
    /\ codec_verdict = Rejected("", <<>>)

BeaconIdle ==
    /\ beacon_now = Word(0)
    /\ beacon_last = Word(0)
    /\ beacon_contact = FALSE
    /\ beacon_done = FALSE
    /\ beacon_interval = 0
    /\ beacon_prefix = ""

\* the firmware held in reset before its first power-on
FwIdle ==
    /\ Is(Factory)
    /\ op = "none"
    /\ events = 0
(***************************************************************************)
(* Replicated cell: write, single-event upset, read, scrub                 *)
(***************************************************************************)
TmrValues == 0..MaxVal

TmrIdle ==
    /\ tmr_cell = tmrWrite(0)
    /\ tmr_written = 0
    /\ tmr_hit = {}
    /\ tmr_op = "write"
    /\ tmr_readOut = 0
    /\ tmr_corrected = FALSE

TmrWriteOp ==
    \E v \in TmrValues :
        /\ tmr_cell' = tmrWrite(v)
        /\ tmr_written' = v
        /\ tmr_hit' = {}
        /\ tmr_op' = "write"
        /\ UNCHANGED <<tmr_readOut, tmr_corrected>>
        /\ UNCHANGED <<codecVars, beaconVars, fwVars>>

\* a particle changes one copy to another value
TmrUpset ==
    \E i \in 1..3, x \in TmrValues :
        /\ \/ i = 1 /\ x # tmr_cell.copy1 /\ tmr_cell' = [tmr_cell EXCEPT !.copy1 = x]
           \/ i = 2 /\ x # tmr_cell.copy2 /\ tmr_cell' = [tmr_cell EXCEPT !.copy2 = x]
           \/ i = 3 /\ x # tmr_cell.copy3 /\ tmr_cell' = [tmr_cell EXCEPT !.copy3 = x]
        /\ tmr_hit' = tmr_hit \cup {i}
        /\ tmr_op' = "upset"
        /\ UNCHANGED <<tmr_written, tmr_readOut, tmr_corrected>>
        /\ UNCHANGED <<codecVars, beaconVars, fwVars>>

TmrReadOp ==
    /\ tmr_readOut' = tmrRead(tmr_cell)
    /\ tmr_op' = "read"
    /\ UNCHANGED <<tmr_cell, tmr_written, tmr_hit, tmr_corrected>>
    /\ UNCHANGED <<codecVars, beaconVars, fwVars>>

TmrScrubOp ==
    LET r == tmrScrub(tmr_cell) IN
        /\ tmr_cell' = r.tmr
        /\ tmr_corrected' = r.corrected
        /\ tmr_hit' = IF Cardinality(tmr_hit) <= 1 THEN {} ELSE tmr_hit
        /\ tmr_op' = "scrub"
        /\ UNCHANGED <<tmr_written, tmr_readOut>>
        /\ UNCHANGED <<codecVars, beaconVars, fwVars>>

SpecTMRInit == TmrIdle /\ CodecIdle /\ BeaconIdle /\ FwIdle
SpecTMRNext == TmrWriteOp \/ TmrUpset \/ TmrReadOp \/ TmrScrubOp
SpecTMR == SpecTMRInit /\ [][SpecTMRNext]_vars

\* C5: a cell whose three copies held v and of which at most one copy has
\* been changed since reads as v, and a scrub leaves all three copies equal to v.
C5_TMRCorrection ==
    Cardinality(tmr_hit) <= 1 =>
        /\ tmr_op = "read" => tmr_readOut = tmr_written
        /\ tmr_op = "scrub" => tmr_cell = tmrWrite(tmr_written)

\* a scrub has just repaired exactly one upset copy
C5_Witness ==
    /\ tmr_op = "scrub"
    /\ tmr_corrected
    /\ tmr_hit = {}
    /\ tmr_written = MaxVal
    /\ tmr_cell = tmrWrite(MaxVal)

(***************************************************************************)
(* Codec: one received frame is validated                                  *)
(***************************************************************************)
\* a frame body: the characters between the satellite id and the tag
CodecAlphabet == {"-", "&", "@", "#", "P", "."}
Bodies(n) == UNION {[1..k -> CodecAlphabet] : k \in 0..n}

\* head # tag, with the tag of head, of another message, or in capitals
Signed(head) == head \o <<"#">> \o calculateHMAC(head)
Forged(head) == head \o <<"#">> \o calculateHMAC(head \o <<"P">>)
Shouted(head) == head \o <<"#">> \o toUpperCase(calculateHMAC(head))

\* a well-formed frame with n characters of data
Padded(n) == Signed(sat_id \o <<"-", "P", "&", "@">> \o [i \in 1..n |-> "P"])

\* command frames as a ground station builds them
Commands == {sat_id \o <<"-">> \o c \o <<"&">> \o p \o <<"@">> \o d :
                c \in {<<"P">>, <<"P", "i", "n", "g">>, <<"P", " ">>},
                p \in {<<>>, <<".", ".">>, <<"/", "a">>, <<"/", "a", "/", ".", ".", "/", "b">>},
                d \in {<<>>, <<"a", "@", "b">>}}

\* the frames handed to the validator, with bodies of up to n characters
Frames(n) ==
    {Signed(sat_id \o b) : b \in Bodies(n)}
        \cup {Forged(sat_id \o b) : b \in Bodies(n)}
        \cup {Shouted(sat_id \o b) : b \in Bodies(n - 1)}
        \cup {Signed(b) : b \in Bodies(n - 1)}
        \cup Bodies(n - 1)
        \cup {sat_id \o b : b \in Bodies(n - 1)}
        \cup {Signed(h) : h \in Commands}
        \cup {Forged(h) : h \in Commands}
        \cup {Padded(500 - Len(Padded(0))), Padded(500 - Len(Padded(0)) + 1)}

SpecCodecInit ==
    /\ codec_frame \in Frames(MaxBody)
    /\ codec_done = FALSE
    /\ codec_verdict = Rejected("", <<>>)
    /\ TmrIdle
    /\ BeaconIdle
    /\ FwIdle

\* processMessage up to the return on an invalid message
CodecValidate ==
    /\ ~codec_done
    /\ codec_verdict' = validateMessage(codec_frame)
    /\ codec_done' = TRUE
    /\ UNCHANGED <<codec_frame, tmrVars, beaconVars, fwVars>>

SpecCodecNext == CodecValidate
SpecCodec == SpecCodecInit /\ [][SpecCodecNext]_vars

\* what a frame is, read off the frame itself
Occurrences(f, d) == Cardinality({i \in 1..Len(f) : f[i] = d})
Delimiters == <<"-", "&", "@", "#">>
Pos(f, k) == indexOf(f, <<Delimiters[k]>>)
LengthOk(f) == Len(f) >= 7 /\ Len(f) <= 500
DelimitersPresent(f) == \A k \in 1..4 : Pos(f, k) # -1
DelimitersOrdered(f) == \A k \in 1..3 : Pos(f, k) < Pos(f, k + 1)
Framed(f) == LengthOk(f) /\ DelimitersPresent(f) /\ DelimitersOrdered(f)
IdField(f) == substring(f, 0, Pos(f, 1))
CommandField(f) == substring(f, Pos(f, 1) + 1, Pos(f, 2))
PathField(f) ==
    IF Pos(f, 2) # -1 /\ Pos(f, 3) # -1 /\ Pos(f, 2) < Pos(f, 3)
    THEN substring(f, Pos(f, 2) + 1, Pos(f, 3)) ELSE <<>>
TagField(f) == substring(f, Pos(f, 4) + 1, Len(f))
Addressed(f) == IdField(f) = sat_id
CommandAlnum(f) == \A i \in 1..Len(CommandField(f)) : isalnum(CommandField(f)[i])
Traversal(f) == indexOf(PathField(f), <<".", ".">>) # -1
Authentic(f) == verifyHMAC(substring(f, 0, Pos(f, 4)), TagField(f))
TraversalReply == << <<"ERR:PATH_TRAVERSAL_BLOCKED">> >>
AuthReply == << <<"ERR:AUTH_FAILED">> >>

\* C2: a frame is accepted if and only if its length is in [7,500], each of
\* the four delimiters occurs exactly once and in the order - & @ #, the
\* satellite id is the local one, the command is nonempty and alphanumeric,
\* the path has no ".." and the tag matches.
C2_AcceptIffWellFormed ==
    codec_done =>
        (codec_verdict.ok <=>
            /\ LengthOk(codec_frame)
            /\ \A k \in 1..4 : Occurrences(codec_frame, Delimiters[k]) = 1
            /\ DelimitersOrdered(codec_frame)
            /\ Addressed(codec_frame)
            /\ CommandField(codec_frame) # <<>>
            /\ CommandAlnum(codec_frame)
            /\ ~Traversal(codec_frame)
            /\ Authentic(codec_frame))

\* C3 as stated: every frame whose path field contains ".." is rejected and
\* answered with ERR:PATH_TRAVERSAL_BLOCKED.
C3_TraversalAlwaysAnswered ==
    codec_done /\ Traversal(codec_frame) =>
        ~codec_verdict.ok /\ codec_verdict.sent = TraversalReply

\* C3: every frame whose path field contains ".." is rejected; it is answered
\* with exactly one ERR:PATH_TRAVERSAL_BLOCKED when it passes the length,
\* delimiter, satellite-id and command-character checks, and with nothing
\* otherwise.
C3_TraversalRejected ==
    codec_done /\ Traversal(codec_frame) =>
        /\ ~codec_verdict.ok
        /\ codec_verdict.sent =
              IF Framed(codec_frame) /\ Addressed(codec_frame) /\ CommandAlnum(codec_frame)
              THEN TraversalReply ELSE <<>>

\* a traversal frame has been answered before its tag was looked at
C3_Witness ==
    /\ codec_done
    /\ codec_frame = Forged(sat_id \o <<"-", "P", "i", "n", "g", "&", "/", "a", "/", ".", ".", "/", "b", "@">>)
    /\ codec_verdict.log = "Path traversal blocked!"
    /\ codec_verdict.sent = TraversalReply

\* C4: a frame that fails the length, missing-delimiter, delimiter-order,
\* satellite-id or command-character check is answered with nothing; every
\* other rejected frame is answered with exactly one message,
\* ERR:PATH_TRAVERSAL_BLOCKED if its path has ".." and ERR:AUTH_FAILED if not.
C4_SilentDrops ==
    codec_done /\ ~codec_verdict.ok =>
        codec_verdict.sent =
            IF ~(Framed(codec_frame) /\ Addressed(codec_frame) /\ CommandAlnum(codec_frame))
            THEN <<>>
            ELSE IF Traversal(codec_frame) THEN TraversalReply
            ELSE AuthReply

\* a correctly signed frame for another satellite has been dropped in silence
C4_Witness ==
    /\ codec_done
    /\ codec_frame = Signed(<<"-", "P", "&", "@">>)
    /\ codec_verdict.log = "Wrong satellite ID"
    /\ codec_verdict.sent = <<>>

(***************************************************************************)
(* Mission: the firmware between power-on and MaxNow, with resets, frames  *)
(* from the ground and hardware faults                                     *)
(***************************************************************************)
\* a frame as the ground station builds it
Frame(command, path, data) ==
    Signed(sat_id \o <<"-">> \o command \o <<"&">> \o path \o <<"@">> \o data)

\* the frames that reach the satellite during the mission: commands, and a
\* command with a wrong tag
MissionFrames ==
    {Frame(Cmd.Ping, <<>>, <<>>), Frame(Cmd.ForceOperational, <<>>, <<>>),
     Frame(Cmd.MCURestart, <<>>, <<>>),
     Forged(sat_id \o <<"-">> \o Cmd.Ping \o <<"&", "@">>)}

\* hardware faults during a pass of the loop
LoopFaults ==
    {[Nominal EXCEPT !.lowBattery = TRUE], [Nominal EXCEPT !.AntSwitch = "LOW"],
     [Nominal EXCEPT !.txBegin = MAX_TX_RETRIES], [Nominal EXCEPT !.transmit = "TX_TIMEOUT"],
     [Nominal EXCEPT !.rxBegin = FALSE], [Nominal EXCEPT !.readData = FALSE],
     [Nominal EXCEPT !.rxBegin = FALSE, !.initBegin = MAX_INIT_RETRIES]}

\* hardware faults during setup
SetupFaults ==
    {[Nominal EXCEPT !.sd = FALSE], [Nominal EXCEPT !.imu = FALSE],
     [Nominal EXCEPT !.initBegin = MAX_INIT_RETRIES]}

\* the price of a hardware answer in events
Cost(env) == IF env = Nominal THEN 0 ELSE 1

\* the chip comes out of reset (power-on, watchdog, ESP.restart) and runs setup
Reset ==
    \E env \in {Nominal} \cup SetupFaults :
        /\ events + Cost(env) + (IF pc = "setup" THEN 0 ELSE 1) <= MaxEvents
        /\ pc = "loop" => now <= EventWindow
        /\ Set(setup([PowerOn(EEPROM, SD) EXCEPT !.env = env]))
        /\ op' = "setup"
        /\ events' = events + Cost(env) + (IF pc = "setup" THEN 0 ELSE 1)
        /\ UNCHANGED <<tmrVars, codecVars, beaconVars>>

\* one pass of mainLoop, TickMs after the previous one
Loop ==
    \E env \in {Nominal} \cup LoopFaults :
        /\ pc = "loop"
        /\ now + TickMs <= MaxNow
        /\ events + Cost(env) <= MaxEvents
        /\ env # Nominal => now <= EventWindow
        /\ Set(mainLoop(Run(TickMs, env)))
        /\ op' = "mainLoop"
        /\ events' = events + Cost(env)
        /\ UNCHANGED <<tmrVars, codecVars, beaconVars>>

\* setFlag: the radio has received a frame and raises its interrupt
RxInterrupt ==
    \E frame \in MissionFrames :
        /\ pc = "loop"
        /\ radio.receiving
        /\ events < MaxEvents
        /\ now <= EventWindow
        /\ Set([Cur EXCEPT !.receivedFlag = TRUE, !.packet = frame])
        /\ op' = "setFlag"
        /\ events' = events + 1
        /\ UNCHANGED <<tmrVars, codecVars, beaconVars>>

Init == TmrIdle /\ CodecIdle /\ BeaconIdle /\ FwIdle
Next == Reset \/ Loop \/ RxInterrupt
Spec == Init /\ [][Next]_vars

BeaconSent ==
    \E i \in 1..Len(sent) :
        sent[i][1] \in {"BEACON_MSG_SEARCHING", "BEACON_MSG_LOST", "BEACON_MSG_CONNECTED"}

\* C8: on a clock that starts with groundContactEstablished = FALSE a beacon
\* occurs every 60 s, and once a valid command has been accepted the next
\* beacon is at least 3,600 s later: a pass of the loop that sends a beacon
\* after a command was accepted in this boot finds the previous beacon, or the
\* command, BEACON_INTERVAL_NORMAL or more in the past.  (The 300 s cadence after
\* 86,400 s without a command lies beyond MaxNow and is not part of the formula.)
C8_BeaconCadence ==
    [][(pc = "loop" /\ lastGroundContact > 0 /\ op' = "mainLoop" /\ BeaconSent')
          => \/ now' - lastBeaconTime >= BEACON_INTERVAL_NORMAL
             \/ now' - lastGroundContact >= BEACON_INTERVAL_NORMAL]_vars
(***************************************************************************)
(* Checkpoint: saves through commands, reloads at boot, and one bit of the *)
(* stored checkpoint upset between a save and the boot that reads it       *)
(***************************************************************************)
\* the commands that save a checkpoint
CkptFrames == {Frame(Cmd.ForceOperational, <<>>, <<>>), Frame(Cmd.MCURestart, <<>>, <<>>)}

\* the bytes of the checkpoint: magic and fields, the rest of the CRC window
\* and the stored CRC
CkptBytes == 0..(EEPROM_CRC_OFFSET + 3)

\* a byte with bit b inverted
flipBit(value, b) ==
    IF (value \div (2 ^ b)) % 2 = 1 THEN value - 2 ^ b ELSE value + 2 ^ b

\* the run is over when a bit has been upset and the boot after it is done
CkptSpent == MaxCkptEvents + 1

\* the chip comes out of reset and runs setup: after power-on, after
\* ESP.restart, after an upset, or unscheduled (watchdog)
CkptReset ==
    LET unscheduled == pc = "loop" /\ op # "flip"
        cost == IF unscheduled THEN 1 ELSE 0
    IN  /\ unscheduled => events + 1 <= MaxCkptEvents
        /\ op # "setup" \/ pc = "setup"
        /\ Set(setup(PowerOn(EEPROM, SD)))
        /\ op' = "setup"
        /\ events' = events + cost
        /\ UNCHANGED <<tmrVars, codecVars, beaconVars>>

\* one pass of mainLoop
CkptLoop ==
    /\ pc = "loop"
    /\ events <= MaxCkptEvents
    /\ now + TickMs <= CkptMaxNow
    /\ Set(mainLoop(Run(TickMs, Nominal)))
    /\ op' = "mainLoop"
    /\ UNCHANGED <<events, tmrVars, codecVars, beaconVars>>

\* setFlag: a command that saves a checkpoint arrives
CkptCommand ==
    \E frame \in CkptFrames :
        /\ pc = "loop"
        /\ radio.receiving
        /\ ~receivedFlag
        /\ events < MaxCkptEvents
        /\ Set([Cur EXCEPT !.receivedFlag = TRUE, !.packet = frame])
        /\ op' = "setFlag"
        /\ events' = events + 1
        /\ UNCHANGED <<tmrVars, codecVars, beaconVars>>

\* a single event upset: one bit of a stored, valid checkpoint is inverted
\* while the chip restarts
CkptFlip ==
    /\ pc = "setup"
    /\ op = "mainLoop"
    /\ loadStateWithCRC(PowerOn(EEPROM, SD)).ret
    /\ \E a \in CkptBytes, b \in 0..7 :
           Set([Cur EXCEPT !.EEPROM[a] = flipBit(@, b)])
    /\ op' = "flip"
    /\ events' = CkptSpent
    /\ UNCHANGED <<tmrVars, codecVars, beaconVars>>

SpecCkptInit == TmrIdle /\ CodecIdle /\ BeaconIdle /\ FwIdle
SpecCkptNext == CkptReset \/ CkptLoop \/ CkptCommand \/ CkptFlip
SpecCkpt == SpecCkptInit /\ [][SpecCkptNext]_vars

\* the last step saved a checkpoint: a pass of the loop that ended in
\* ESP.restart (MCURestart, failed radio recovery) or that answered
\* ForceOperational
CheckpointWritten ==
    /\ op = "mainLoop"
    /\ pc = "setup" \/ \E i \in 1..Len(sent) : sent[i] = <<"OK:FORCED_OPERATIONAL">>

\* what loadStateWithCRC restores from the store as it is
Restored == loadStateWithCRC(PowerOn(EEPROM, SD))

\* the boot that follows, on the store as it is
Rebooted == setupGeneral(PowerOn(EEPROM, SD))

C7_BitFlipDetected ==
    [][(op = "flip" /\ op' = "setup") =>
          /\ ~Restored.ret
          /\ ~loaded'
          /\ currentState' = STATE_BOOT
          /\ ~antennaDeployed'
          /\ bootCount' = U32(1)]_vars

\* the boot after an upset outside the magic byte of a checkpoint that was
\* saved with the antenna deployed by a later boot
C7_Witness ==
    /\ op = "setup"
    /\ events = CkptSpent
    /\ EEPROM[EEPROM_ADDR_MAGIC] = EEPROM_MAGIC
    /\ EEPROM[EEPROM_ADDR_DEPLOY_OK] = 1
    /\ EEPROM[EEPROM_ADDR_BOOTCOUNT] = 2
    /\ ~loaded
    /\ currentState = STATE_BOOT
    /\ ~antennaDeployed
    /\ bootCount = U32(1)
(***************************************************************************)
(* Radio link: sends and recoveries after setup, the radio answering each  *)
(* call with success or one of its errors                                  *)
(***************************************************************************)
\* the messages handed to sendMessage
RadioMessages == {<<"PONG|">>, <<"TELEMETRY">>}

\* sendMessage, called by a handler
RadioSend ==
    \E env \in RadioEnvs, message \in RadioMessages :
        /\ pc = "loop"
        /\ contE < MaxRadioFaults
        /\ contR < MaxRadioFaults
        /\ Set(sendMessage([Cur EXCEPT !.env = env, !.sent = <<>>], message))
        /\ op' = "sendMessage"
        /\ UNCHANGED <<events, tmrVars, codecVars, beaconVars>>

\* recoverRadio, called when radioNeedsRecovery
RadioRecover ==
    \E env \in RadioEnvs :
        /\ pc = "loop"
        /\ radioNeedsRecovery(Cur)
        /\ Set(recoverRadio([Cur EXCEPT !.env = env, !.sent = <<>>]))
        /\ op' = "recoverRadio"
        /\ UNCHANGED <<events, tmrVars, codecVars, beaconVars>>

\* the firmware as setup leaves it on working hardware
SpecRadioInit ==
    TmrIdle /\ CodecIdle /\ BeaconIdle /\ Is(setup(Factory)) /\ op = "setup" /\ events = 0
SpecRadioNext == RadioSend \/ RadioRecover
SpecRadio == SpecRadioInit /\ [][SpecRadioNext]_vars

ChunkFrames(k) ==
    {Frame(Cmd.ImageChunk, <<CharOf(CodeOf["0"] + k)>>, <<"Q", "U", "J", "D">>),
     Frame(Cmd.ImageChunk, <<CharOf(CodeOf["0"] + k)>>, <<"R", "E", "V", "G">>)}

\* the frames of the uploads: an image of two chunks, an image of one chunk
\* announced with six bytes, an image of seven chunks; chunks 0, 1 and 2
ImageFrames ==
    {Frame(Cmd.ImageStart, <<"/", "a">>, <<"2", ":", "6">>),
     Frame(Cmd.ImageStart, <<"/", "a">>, <<"1", ":", "6">>),
     Frame(Cmd.ImageStart, <<"/", "a">>, <<"7", ":", "9">>),
     Frame(Cmd.ImageEnd, <<>>, <<>>), Frame(Cmd.ImageCancel, <<>>, <<>>)}
        \cup ChunkFrames(0) \cup ChunkFrames(1) \cup ChunkFrames(2)

\* what the SD card answers during a pass
ImageEnvs ==
    {Nominal, [Nominal EXCEPT !.fileOpen = FALSE], [Nominal EXCEPT !.fsOk = FALSE],
     [Nominal EXCEPT !.truncates = TRUE]}

\* power-on: setup on working hardware
ImgBoot ==
    /\ pc = "setup"
    /\ Set(setup(PowerOn(EEPROM, SD)))
    /\ op' = "setup"
    /\ UNCHANGED <<events, tmrVars, codecVars, beaconVars>>

\* one pass of mainLoop
ImgLoop ==
    \E env \in ImageEnvs :
        /\ pc = "loop"
        /\ now + ImgTickMs <= ImgMaxNow
        /\ env # Nominal => receivedFlag
        /\ Set(mainLoop(Run(ImgTickMs, env)))
        /\ op' = "mainLoop"
        /\ UNCHANGED <<events, tmrVars, codecVars, beaconVars>>

\* setFlag: a frame of the image protocol has been received
ImgRx ==
    \E frame \in ImageFrames :
        /\ pc = "loop"
        /\ radio.receiving
        /\ ~receivedFlag
        /\ now + ImgTickMs <= ImgMaxNow
        /\ Set([Cur EXCEPT !.receivedFlag = TRUE, !.packet = frame])
        /\ op' = "setFlag"
        /\ UNCHANGED <<events, tmrVars, codecVars, beaconVars>>

SpecImageInit == TmrIdle /\ CodecIdle /\ BeaconIdle /\ FwIdle
SpecImageNext == ImgBoot \/ ImgLoop \/ ImgRx
SpecImage == SpecImageInit /\ [][SpecImageNext]_vars

\* the answer to a chunk that was already received
ImgDup(k) == <<"OK:IMG_DUP:", ToString(k)>>

\* C10: during a transfer in phase Receiving, a second ImageChunk for an
\* index k that was already accepted is answered OK:IMG_DUP:k and leaves the
\* received mask, receivedCount, currentSize and every byte of the sink file
\* unchanged.
C10_DuplicateChunk ==
    [][\A k \in 0..1 :
          (/\ op' = "mainLoop"
           /\ receivedFlag /\ ~receivedFlag'
           /\ packet \in ChunkFrames(k)
           /\ imageTransfer.state = IMG_RECEIVING
           /\ imageTransfer.chunkReceived[k])
          => /\ \E i \in 1..Len(sent') : sent'[i] = ImgDup(k)
             /\ imageTransfer' = imageTransfer
             /\ SD' = SD]_vars

\* chunk 0 was received as "ABC", then sent again as "DEF" and answered as a
\* duplicate: the sink file still holds "ABC"
C10_Witness ==
    /\ op = "mainLoop"
    /\ \E i \in 1..Len(sent) : sent[i] = ImgDup(0)
    /\ packet = Frame(Cmd.ImageChunk, <<"0">>, <<"R", "E", "V", "G">>)
    /\ imageTransfer.state = IMG_RECEIVING
    /\ imageTransfer.chunkReceived[0]
    /\ ~imageTransfer.chunkReceived[1]
    /\ imageTransfer.receivedChunks = 1
    /\ imageTransfer.currentSize = 3
    /\ SD[TEMP_IMAGE_FILE] = (0 :> 65 @@ 1 :> 66 @@ 2 :> 67)

\* the ImageEnd frame
EndFrame == Frame(Cmd.ImageEnd, <<>>, <<>>)

\* the answer to ImageEnd when the upload to /a is complete with size bytes
ImgComplete(size) == <<"OK:IMG_COMPLETE:", "/", "a", ":", ToString(size), "B">>

\* the last pass answered an ImageEnd with OK:IMG_COMPLETE
EndSucceeds ==
    /\ op' = "mainLoop"
    /\ receivedFlag /\ ~receivedFlag'
    /\ packet = EndFrame
    /\ imageTransfer.state = IMG_RECEIVING
    /\ \E i \in 1..Len(sent') : sent'[i][1] = "OK:IMG_COMPLETE:"

\* C11: whenever ImageEnd succeeds after every chunk index in [0,totalChunks)
\* has been received exactly once, the final file has exactly expectedSize
\* bytes and the size reported in OK:IMG_COMPLETE equals expectedSize.
C11_FinalSize ==
    [][EndSucceeds
          => /\ \A k \in 0..(imageTransfer.totalChunks - 1) : imageTransfer.chunkReceived[k]
             /\ imageTransfer.filename \in DOMAIN SD'
             /\ SD_size(SD'[imageTransfer.filename]) = imageTransfer.expectedSize
             /\ \E i \in 1..Len(sent') : sent'[i] = ImgComplete(imageTransfer.expectedSize)]_vars

\* the last pass handed an ImageEnd to imageEnd while a transfer was in
\* phase Receiving
EndProcessed ==
    /\ op' = "mainLoop"
    /\ receivedFlag /\ ~receivedFlag'
    /\ packet = EndFrame
    /\ imageTransfer.state = IMG_RECEIVING

\* the chunk indices of the transfer that have not been accepted
Missing == {k \in 0..(imageTransfer.totalChunks - 1) : ~imageTransfer.chunkReceived[k]}

\* the five lowest of them
LowestMissing == {k \in Missing : Cardinality({j \in Missing : j < k}) < 5}

RECURSIVE CommaList(_)
\* the numbers of a set in ascending order, separated by commas
CommaList(set) ==
    IF set = {} THEN <<>>
    ELSE LET least == CHOOSE k \in set : \A j \in set : k <= j
         IN  <<ToString(least)>> \o (IF set = {least} THEN <<>> ELSE <<",">>)
                 \o CommaList(set \ {least})

\* the transfer is completed: the final file exists, the temp file is gone,
\* the context is idle again and OK:IMG_COMPLETE was sent
Completed ==
    /\ imageTransfer' = IdleTransfer
    /\ imageTransfer.filename \in DOMAIN SD'
    /\ TEMP_IMAGE_FILE \notin DOMAIN SD'
    /\ \E i \in 1..Len(sent') : sent'[i][1] = "OK:IMG_COMPLETE:"

\* ImageEnd was answered ERR:IMG_MISSING with the lowest missing indices, and
\* the transfer context is as it was
AnsweredMissing ==
    /\ \E i \in 1..Len(sent') : sent'[i] = <<"ERR:IMG_MISSING:">> \o CommaList(LowestMissing)
    /\ imageTransfer' = imageTransfer

\* C12 (as amended): for chunks delivered in any order with any number of
\* duplicates, ImageEnd completes the transfer only if every index in
\* [0,totalChunks) has been accepted, and then it completes it unless the
\* rename of the temp file fails, in which case it replies ERR:IMG_RENAME and
\* the transfer goes to Error; when an index is missing it replies
\* ERR:IMG_MISSING listing the lowest missing indices (at most 5, ascending),
\* and the transfer stays in Receiving with its received set unchanged.
C12_EndCompletesOrLists ==
    [][EndProcessed
          => IF Missing = {}
             THEN \/ Completed
                  \/ /\ \E i \in 1..Len(sent') : sent'[i] = <<"ERR:IMG_RENAME">>
                     /\ imageTransfer'.state = IMG_ERROR
             ELSE AnsweredMissing]_vars

\* C12 as stated: ImageEnd completes the transfer if and only if every index
\* has been accepted, and otherwise answers ERR:IMG_MISSING and leaves the
\* transfer as it was.
C12_EndCompletesIffAll ==
    [][EndProcessed
          => IF Missing = {} THEN Completed ELSE ~Completed /\ AnsweredMissing]_vars

\* an upload of seven chunks got chunk 2 only: ImageEnd is answered with the
\* five lowest of the six missing indices and the transfer is still receiving
C12_Witness ==
    /\ op = "mainLoop"
    /\ packet = EndFrame
    /\ ~receivedFlag
    /\ \E i \in 1..Len(sent) :
           sent[i] = <<"ERR:IMG_MISSING:", "0", ",", "1", ",", "3", ",", "4", ",", "5">>
    /\ imageTransfer.state = IMG_RECEIVING
    /\ imageTransfer.totalChunks = 7
    /\ imageTransfer.receivedChunks = 1
    /\ imageTransfer.chunkReceived[2]
(***************************************************************************)
(* Ground session: first contact, an image upload that is started and then *)
(* left alone, resets in between                                           *)
(***************************************************************************)
\* the frames of the session; the last is a frame with an empty command field
SessionFrames ==
    {Frame(Cmd.Ping, <<>>, <<>>), Frame(Cmd.ForceOperational, <<>>, <<>>),
     Frame(Cmd.ImageStart, <<"/", "a">>, <<"1", ":", "6">>),
     Frame(<<>>, <<>>, <<>>)}

\* the chip comes out of reset and runs setup(), the SD card present or not:
\* at power-on, after ESP.restart, or unscheduled (watchdog)
SessBoot ==
    \E env \in {Nominal, [Nominal EXCEPT !.sd = FALSE]} :
        LET unscheduled == pc = "loop"
            cost == (IF unscheduled THEN 1 ELSE 0) + Cost(env)
        IN  /\ events + cost <= MaxSessEvents
            /\ unscheduled => now <= SessWindow
            /\ Set(setup([PowerOn(EEPROM, SD) EXCEPT !.env = env]))
            /\ op' = "setup"
            /\ events' = events + cost
            /\ UNCHANGED <<tmrVars, codecVars, beaconVars>>

\* one pass of loop()
SessLoop ==
    /\ pc = "loop"
    /\ now + SessTickMs <= SessMaxNow
    /\ Set(loop(Run(SessTickMs, Nominal)))
    /\ op' = "mainLoop"
    /\ UNCHANGED <<events, tmrVars, codecVars, beaconVars>>

\* setFlag: a frame of the session has been received
SessRx ==
    \E frame \in SessionFrames :
        /\ pc = "loop"
        /\ radio.receiving
        /\ ~receivedFlag
        /\ events < MaxSessEvents
        /\ now <= SessWindow
        /\ Set([Cur EXCEPT !.receivedFlag = TRUE, !.packet = frame])
        /\ op' = "setFlag"
        /\ events' = events + 1
        /\ UNCHANGED <<tmrVars, codecVars, beaconVars>>

SpecSessionInit == TmrIdle /\ CodecIdle /\ BeaconIdle /\ FwIdle
SpecSessionNext == SessBoot \/ SessLoop \/ SessRx
SpecSession == SpecSessionInit /\ [][SpecSessionNext]_vars

\* C13: the image upload is timeout-bounded: every transfer that enters
\* Receiving leaves Receiving even if no further command arrives; a pass of
\* the loop that finds a transfer in Receiving more than IMAGE_TIMEOUT_MS after
\* its last accepted chunk emits ERR:IMG_TIMEOUT, removes the temp file and
\* returns the phase to Idle.
C13_UploadTimesOut ==
    [][(/\ pc = "loop" /\ op' = "mainLoop" /\ pc' = "loop"
        /\ ~receivedFlag
        /\ imageTransfer.state = IMG_RECEIVING
        /\ now' - imageTransfer.lastChunkTime > IMAGE_TIMEOUT_MS)
          => /\ \E i \in 1..Len(sent') : sent'[i] = <<"ERR:IMG_TIMEOUT">>
             /\ TEMP_IMAGE_FILE \notin DOMAIN SD'
             /\ imageTransfer'.state = IMG_IDLE]_vars

\* the persistent byte says the first-contact recording was started
FirstDone == EEPROM[EEPROM_FIRST_ACCEL_ADDR] = 170

\* a recording was started in the last step
RecordingStarts ==
    \/ op' # "setFlag" /\ \E i \in 1..Len(sent') : sent'[i][1] = "OK:ACCEL_RECORDING:"
    \/ accelRecording'.state = ACCEL_RECORDING /\ accelRecording.state # ACCEL_RECORDING
    \/ accelRecording'.state = ACCEL_RECORDING
           /\ accelRecording'.startTime # accelRecording.startTime

\* C15: over the whole lifetime including resets, once the persistent flag
\* byte is 0xAA it stays 0xAA and no later ground contact, in this boot or in
\* a later one, starts an automatic recording.
C15_FirstRecordingOnce ==
    [][FirstDone => (EEPROM'[EEPROM_FIRST_ACCEL_ADDR] = 170 /\ ~RecordingStarts)]_vars

\* in a boot after the one that recorded, a Ping is answered as first contact
\* of the boot and the recorder stays idle
C15_Witness ==
    /\ FirstDone
    /\ loaded
    /\ op = "mainLoop"
    /\ packet = Frame(Cmd.Ping, <<>>, <<>>)
    /\ ~receivedFlag
    /\ lastGroundContact = now
    /\ \E i \in 1..Len(sent) : sent[i] = <<"PONG|">>
    /\ accelRecording = IdleRecording
    /\ firstAccelRecordingDone
(***************************************************************************)
(* Recording: the first contact starts the recorder, loop() ticks it until *)
(* the recording is complete or the card refuses a write                   *)
(***************************************************************************)
\* power-on: setup on working hardware
AccBoot ==
    /\ pc = "setup"
    /\ Set(setup(PowerOn(EEPROM, SD)))
    /\ op' = "setup"
    /\ UNCHANGED <<events, tmrVars, codecVars, beaconVars>>

\* the time a pass of loop() may start after the last one
AccTicks ==
    IF /\ accelRecording.state = ACCEL_RECORDING
       /\ accelRecording.samplesRecorded <= AccJitterSamples
    THEN {AccShortMs, AccTickMs}
    ELSE {AccTickMs}

\* what the card answers during a pass
AccEnvs ==
    IF now <= AccFaultUntil /\ accelRecording.state = ACCEL_RECORDING
    THEN {Nominal, [Nominal EXCEPT !.fsOk = FALSE]}
    ELSE {Nominal}

\* the number of passes a step takes: one, or, in an undisturbed stretch of a
\* recording that does not reach its last sample, AccBatch in a row
AccCounts ==
    IF /\ accelRecording.state = ACCEL_RECORDING
       /\ accelRecording.samplesRecorded > AccJitterSamples
       /\ (accelRecording.samplesRecorded - AccJitterSamples - 1) % AccBatch = 0
       /\ accelRecording.samplesRecorded + AccBatch < ACCEL_TOTAL_SAMPLES
       /\ now + AccBatch * AccTickMs <= AccMaxNow
    THEN {1, AccBatch}
    ELSE {1}

RECURSIVE passes(_, _)
\* the n passes of loop() that follow a pass which left the firmware as t,
\* AccTickMs apart on working hardware: none when the pass ended in ESP.restart
passesAfter(t, n) ==
    IF n = 0 \/ t.pc # "loop" THEN t
    ELSE passes([t EXCEPT !.now = t.now + AccTickMs, !.env = Nominal, !.sent = <<>>], n)

\* n passes of loop() in a row, the first of them on s
passes(s, n) == passesAfter(loop(s), n - 1)

\* passes of loop(): one, or a stretch of AccBatch
AccLoop ==
    \E dt \in AccTicks, env \in AccEnvs, n \in AccCounts :
        /\ pc = "loop"
        /\ now + dt <= AccMaxNow
        /\ n > 1 => dt = AccTickMs /\ env = Nominal
        /\ Set(passes(Run(dt, env), n))
        /\ op' = (IF n = 1 THEN "mainLoop" ELSE "mainLoops")
        /\ UNCHANGED <<events, tmrVars, codecVars, beaconVars>>

\* setFlag: the Ping of the first contact has been received
AccRx ==
    /\ pc = "loop"
    /\ radio.receiving
    /\ ~receivedFlag
    /\ now <= AccContactUntil
    /\ Set([Cur EXCEPT !.receivedFlag = TRUE, !.packet = Frame(Cmd.Ping, <<>>, <<>>)])
    /\ op' = "setFlag"
    /\ UNCHANGED <<events, tmrVars, codecVars, beaconVars>>

SpecAccelInit == TmrIdle /\ CodecIdle /\ BeaconIdle /\ FwIdle
SpecAccelNext == AccBoot \/ AccLoop \/ AccRx
SpecAccel == SpecAccelInit /\ [][SpecAccelNext]_vars

\* the last pass completed the recording
RecordingCompletes ==
    /\ accelRecording.state = ACCEL_RECORDING
    /\ op' = "mainLoop"
    /\ \E i \in 1..Len(sent') : sent'[i][1] = "OK:ACCEL_COMPLETE:"

\* the recording file holds the header and count samples, and nothing else
RecordingFile(file, count) ==
    /\ DOMAIN file = 0..(ACCEL_HEADER_SIZE + count * Len(AccelSample) - 1)
    /\ \A o \in 0..(ACCEL_HEADER_SIZE - 1) : file[o] = AccelHeader[o + 1]
    /\ file[8] + 256 * file[9] = 30
    /\ file[10] + 256 * file[11] = count
    /\ \A k \in 0..(count - 1) : \A j \in 1..Len(AccelSample) :
           file[ACCEL_HEADER_SIZE + k * Len(AccelSample) + j - 1] = AccelSample[j]

\* C14: when the recorder leaves Recording by completion, exactly 1800 samples
\* of 12 bytes were appended after the 16-byte header (file size 21,616 B,
\* header rate 30 and count 1800) and the recorder state is Idle again;
\* a pass of the loop takes at most one sample, and only when 33 ms or more
\* have passed since the previous one, and samplesRecorded never exceeds 1800.
C14_RecordingComplete ==
    [][/\ RecordingCompletes
          => /\ accelRecording'.state = ACCEL_IDLE
             /\ accelRecording'.samplesRecorded = 1800
             /\ accelFile' = [open |-> FALSE, pos |-> 21616]
             /\ RecordingFile(SD'[accelRecording.filename], 1800)
             /\ \E i \in 1..Len(sent') :
                    sent'[i] = <<"OK:ACCEL_COMPLETE:">> \o accelRecording.filename
                                   \o <<":", "21616", "B">>
       /\ (op' = "mainLoop"
             /\ accelRecording.state = ACCEL_RECORDING
             /\ accelRecording.samplesRecorded >= 1
             /\ accelRecording'.samplesRecorded # accelRecording.samplesRecorded)
          => /\ accelRecording'.samplesRecorded = accelRecording.samplesRecorded + 1
             /\ now' - accelRecording.lastSampleTime >= 33
       /\ accelRecording'.samplesRecorded <= 1800]_vars

\* a recording has just been completed: the recorder is idle with 1800
\* samples counted, 60 seconds or more after its start
C14_Witness ==
    /\ op = "mainLoop"
    /\ accelRecording.state = ACCEL_IDLE
    /\ accelRecording.samplesRecorded = 1800
    /\ accelRecording.lastSampleTime = now
    /\ now - accelRecording.startTime >= 59000
    /\ ~accelFile.open
    /\ \E i \in 1..Len(sent) : sent[i][1] = "OK:ACCEL_COMPLETE:"
(***************************************************************************)
(* Mission: resets, forced operation and the way to deployment             *)
(***************************************************************************)
\* the last pass of the loop ended in ESP.restart
FirmwareReset == op = "mainLoop" /\ pc = "setup"

\* C17: every firmware-initiated reset (MCURestart dispatched in any mission
\* state, or a failed radio recovery in Operational) is preceded by a
\* completed checkpoint save: the store holds a valid checkpoint with the
\* boot count and the antenna-deployed flag as they are at the reset, so the
\* boot that follows loads it, keeps antennaDeployed and counts one boot more.
C17_ResetAfterSave ==
    FirmwareReset =>
        /\ EEPROM[EEPROM_ADDR_MAGIC] = EEPROM_MAGIC
        /\ EEPROM_get(EEPROM, EEPROM_CRC_OFFSET) = calculateCRC32(crcBuffer(EEPROM))
        /\ EEPROM_get(EEPROM, EEPROM_ADDR_BOOTCOUNT) = bootCount
        /\ (EEPROM[EEPROM_ADDR_DEPLOY_OK] = 1) = antennaDeployed
        /\ Rebooted.loaded
        /\ Rebooted.antennaDeployed = antennaDeployed
        /\ Rebooted.bootCount = Inc32(bootCount)

\* the radio recovery failed in Operational in the second boot: the pass ended
\* in ESP.restart with the checkpoint of an operational satellite in the store
C17_Witness ==
    /\ FirmwareReset
    /\ currentState = STATE_OPERATIONAL
    /\ antennaDeployed
    /\ ~RFOK
    /\ bootCount = U32(2)
    /\ \A i \in 1..Len(sent) : sent[i] # <<"OK:RESTARTING">>
    /\ Rebooted.currentState = STATE_OPERATIONAL
    /\ Rebooted.bootCount = U32(3)

\* the last pass of the loop dispatched ForceOperational
Forced ==
    /\ op = "mainLoop"
    /\ \E i \in 1..Len(sent) : sent[i] = <<"OK:FORCED_OPERATIONAL">>

\* the store says the antenna is deployed
DeployedSaved ==
    /\ EEPROM[EEPROM_ADDR_MAGIC] = EEPROM_MAGIC
    /\ EEPROM[EEPROM_ADDR_DEPLOY_OK] = 1

\* C18: after ForceOperational is dispatched from WaitDeploy, Deploying or
\* Operational, the mission state is Operational and antennaDeployed is true,
\* both are persisted (a reset boots directly into Operational), and the
\* mission state never returns to Boot, WaitDeploy or Deploying afterwards.
C18_ForcedOperational ==
    /\ Forced => /\ currentState = STATE_OPERATIONAL
                 /\ antennaDeployed
                 /\ DeployedSaved
                 /\ pc = "loop"
    /\ DeployedSaved => /\ Rebooted.loaded
                        /\ Rebooted.currentState = STATE_OPERATIONAL
                        /\ Rebooted.antennaDeployed
                        /\ currentState = STATE_OPERATIONAL
                        /\ antennaDeployed

\* ForceOperational was dispatched in Wait-Deploy of an earlier boot; the
\* satellite has since been reset and has run a scrub pass in Operational
C18_Witness ==
    /\ DeployedSaved
    /\ ~Forced
    /\ pc = "loop"
    /\ op = "mainLoop"
    /\ loaded
    /\ bootCount = U32(2)
    /\ lastScrubTime > 1500
    /\ currentState = STATE_OPERATIONAL
    /\ antennaDeployed

\* C19: starting from Boot with the antenna not deployed, with no commands and
\* no memory corruption, the pre-deployment wait runs to expiry and is not
\* restarted by the periodic scrub pass: once the loop has run undisturbed for
\* DEPLOY_WAIT_TIME and three passes more, the mission state has left Boot and
\* WaitDeploy for Deploying, on its way to Operational.
C19_WaitExpires ==
    (events = 0 /\ pc = "loop" /\ now >= DEPLOY_WAIT_TIME + 3 * TickMs)
        => currentState \notin {STATE_BOOT, STATE_WAIT_DEPLOY}

\* the last pass of the loop changed the mission state
StateChanged == pc = "loop" /\ op' = "mainLoop" /\ currentState' # currentState

\* C22: after every change of mission state (Boot to WaitDeploy, WaitDeploy to
\* Deploying, Deploying to Operational, Error to Operational,
\* ForceOperational) the voted value of the mission-state cell equals the new
\* mission state, and a checkpoint containing it and the deployment flag is
\* saved.
C22_TransitionSaved ==
    [][StateChanged
          => /\ tmrRead(tmr_missionState') = currentState'
             /\ EEPROM'[EEPROM_ADDR_MAGIC] = EEPROM_MAGIC
             /\ EEPROM'[EEPROM_ADDR_STATE] = currentState'
             /\ (EEPROM'[EEPROM_ADDR_DEPLOY_OK] = 1) = antennaDeployed']_vars

\* the three copies of a replicated cell agree
Unanimous(t) == t.copy1 = t.copy2 /\ t.copy2 = t.copy3

\* no copy of a replicated cell is corrupted
NoCopyCorrupted ==
    /\ Unanimous(tmr_missionState) /\ Unanimous(tmr_antennaState)
    /\ Unanimous(tmr_antennaDeployed) /\ Unanimous(tmr_groundContact)
    /\ Unanimous(tmr_rfOK) /\ Unanimous(tmr_imuOK)
    /\ Unanimous(tmr_sdOK) /\ Unanimous(tmr_bootCount)

\* the next pass of the loop starts with a scrub pass
ScrubDue == pc = "loop" /\ now + TickMs - lastScrubTime >= SCRUB_INTERVAL

\* the firmware after that scrub pass
Scrubbed == scrubAllTMR(Cur)

\* C23: a scrub pass in which no copy of a replicated cell is corrupted
\* changes no observable firmware state: mission state, antenna sub-state,
\* antennaDeployed, groundContactEstablished, the radio, IMU and SD health
\* flags and the boot count are the same after the pass as before it.
C23_CleanScrubChangesNothing ==
    (ScrubDue /\ NoCopyCorrupted)
        => /\ Scrubbed.currentState = currentState
           /\ Scrubbed.antennaState = antennaState
           /\ Scrubbed.antennaDeployed = antennaDeployed
           /\ Scrubbed.groundContactEstablished = groundContactEstablished
           /\ Scrubbed.RFOK = RFOK
           /\ Scrubbed.IMUOK = IMUOK
           /\ Scrubbed.SDOK = SDOK
           /\ Scrubbed.bootCount = bootCount

\* the store holds a valid checkpoint that says the antenna is deployed
DeployedValid ==
    /\ DeployedSaved
    /\ EEPROM_get(EEPROM, EEPROM_CRC_OFFSET) = calculateCRC32(crcBuffer(EEPROM))

\* C26: once antennaDeployed = true has been saved in a checkpoint that stays
\* valid, every later boot starts in Operational and never enters WaitDeploy
\* or Deploying, so the burn wire is never energised again in any later boot:
\* a boot on such a checkpoint loads it and starts in Operational with the wire
\* off, and every step of a boot that loaded it keeps Operational, the wire off
\* and the deployment flag in the store.
C26_DeployedBootsOperational ==
    [][/\ (DeployedValid /\ op' = "setup")
             => /\ loaded'
                /\ currentState' = STATE_OPERATIONAL
                /\ antennaDeployed'
                /\ R1' = "LOW"
       /\ (/\ DeployedValid /\ loaded /\ pc = "loop" /\ op' # "setup"
           /\ currentState = STATE_OPERATIONAL /\ R1 = "LOW")
             => /\ currentState' = STATE_OPERATIONAL
                /\ R1' = "LOW"
                /\ EEPROM'[EEPROM_ADDR_MAGIC] = EEPROM_MAGIC
                /\ EEPROM'[EEPROM_ADDR_DEPLOY_OK] = 1
                /\ EEPROM_get(EEPROM', EEPROM_CRC_OFFSET) = calculateCRC32(crcBuffer(EEPROM'))]_vars

\* the second boot after antennaDeployed was saved: the satellite is
\* Operational with the wire off, and a scrub pass has run
C26_Witness ==
    /\ DeployedValid
    /\ loaded
    /\ pc = "loop"
    /\ op = "mainLoop"
    /\ bootCount = U32(3)
    /\ lastScrubTime = now
    /\ currentState = STATE_OPERATIONAL
    /\ antennaState = ANT_IDLE
    /\ R1 = "LOW"

\* a beacon or a telemetry report, the two messages the loop sends on its own
Periodic(m) ==
    m[1] \in {"BEACON_MSG_SEARCHING", "BEACON_MSG_LOST", "BEACON_MSG_CONNECTED", "TELEMETRY"}

\* the answer of the handler of a command of the mission
Answer(command) ==
    IF command = Cmd.Ping THEN <<"PONG|">>
    ELSE IF command = Cmd.ForceOperational THEN <<"OK:FORCED_OPERATIONAL">>
    ELSE <<"OK:RESTARTING">>

\* the last step was a pass of the loop that read a frame the codec accepts
\* and ran its handler
AcceptedPass ==
    /\ pc = "loop" /\ op' = "mainLoop"
    /\ receivedFlag /\ ~receivedFlag'
    /\ validateMessage(packet).ok
    /\ \E i \in 1..Len(sent') : sent'[i] = Answer(validateMessage(packet).command)

\* C27: for every accepted frame the events occur in the order parse,
\* registerGroundContact, handler dispatch, response transmission(s), and no
\* beacon or periodic telemetry is transmitted between the first and the last
\* response of one command: the pass that reads an accepted frame registers
\* the contact, what registerGroundContact sends (the answer of the recorder
\* at a first contact) comes before the answer of the handler, which is the
\* last message of the pass, and no beacon or telemetry report stands between
\* two of the messages the frame caused.
C27_DispatchOrder ==
    [][AcceptedPass
          => /\ lastGroundContact' = now'
             /\ sent' # <<>>
             /\ sent'[Len(sent')] = Answer(validateMessage(packet).command)
             /\ \A i, j \in 1..Len(sent') :
                    (i < j /\ ~Periodic(sent'[i])) => ~Periodic(sent'[j])]_vars

\* a Ping is the first contact and is read in a pass that also sends a
\* beacon: the beacon, the answer of the recorder, the answer to the Ping
C27_Witness ==
    /\ op = "mainLoop"
    /\ packet = Frame(Cmd.Ping, <<>>, <<>>)
    /\ ~receivedFlag
    /\ lastGroundContact = now
    /\ Len(sent) = 3
    /\ Periodic(sent[1])
    /\ sent[2] = <<"ERR:SD_NOT_AVAILABLE">>
    /\ sent[3] = <<"PONG|">>

\* the last step was a pass that ran the handler of an accepted frame and also
\* sent a beacon or a telemetry report
MixedPass == AcceptedPass /\ \E i \in 1..Len(sent') : Periodic(sent'[i])

RejectedPass ==
    /\ pc = "loop" /\ op' = "mainLoop"
    /\ receivedFlag /\ ~receivedFlag'
    /\ ~validateMessage(packet).ok

\* a rejected frame registers no contact, runs no handler and starts no
\* recording
RejectedIsIgnored ==
    RejectedPass
        => /\ lastGroundContact' = lastGroundContact
           /\ groundContactEstablished' => groundContactEstablished
           /\ accelRecording' = accelRecording
           /\ \A i \in 1..Len(sent') :
                  /\ sent'[i] \notin {<<"PONG|">>, <<"OK:FORCED_OPERATIONAL">>, <<"OK:RESTARTING">>}
                  /\ sent'[i][1] # "OK:ACCEL_RECORDING:"

\* the last pass of the loop changed the record of the ground contact
ContactChanged ==
    /\ pc = "loop" /\ op' = "mainLoop"
    /\ \/ groundContactEstablished' # groundContactEstablished
       \/ lastGroundContact' # lastGroundContact

\* C29: groundContactEstablished and lastGroundContact change only as the
\* result of a frame accepted by the codec: a rejected frame (including one
\* answered with ERR:AUTH_FAILED or ERR:PATH_TRAVERSAL_BLOCKED) leaves them
\* unchanged, dispatches no handler and starts no recording.
C29_ContactOnlyOnAccept ==
    [][/\ ContactChanged => (receivedFlag /\ validateMessage(packet).ok)
       /\ RejectedIsIgnored]_vars

\* the part of C29 about rejected frames, on its own
RejectedFramesIgnored == [][RejectedIsIgnored]_vars
(***************************************************************************)
(* Memory upsets: bits of the copies of the mission-state cell are         *)
(* inverted while the loop runs                                            *)
(***************************************************************************)
\* the copies of a replicated cell
Copies == {"copy1", "copy2", "copy3"}

\* power-on: setup on working hardware
SeuBoot ==
    /\ pc = "setup"
    /\ Set(setup(PowerOn(EEPROM, SD)))
    /\ op' = "setup"
    /\ UNCHANGED <<events, tmrVars, codecVars, beaconVars>>

\* one pass of loop(), the antenna switch pressed or released
SeuLoop ==
    \E env \in {Nominal, [Nominal EXCEPT !.AntSwitch = "LOW"]} :
        /\ pc = "loop"
        /\ now + SeuTickMs <= SeuMaxNow
        /\ events + Cost(env) <= MaxSeuEvents
        /\ env # Nominal => now <= SeuWindow
        /\ Set(loop(Run(SeuTickMs, env)))
        /\ op' = "mainLoop"
        /\ events' = events + Cost(env)
        /\ UNCHANGED <<tmrVars, codecVars, beaconVars>>

\* a single event upset: one of the low three bits of one copy of the
\* mission-state cell is inverted
SeuUpset ==
    \E c \in Copies, b \in 0..2 :
        /\ pc = "loop"
        /\ events < MaxSeuEvents
        /\ now <= SeuWindow
        /\ Set([Cur EXCEPT !.tmr_missionState[c] = flipBit(@, b)])
        /\ op' = "upset"
        /\ events' = events + 1
        /\ UNCHANGED <<tmrVars, codecVars, beaconVars>>

\* setFlag: a ForceOperational frame has been received
SeuRx ==
    /\ pc = "loop"
    /\ radio.receiving
    /\ ~receivedFlag
    /\ events < MaxSeuEvents
    /\ now <= SeuWindow
    /\ Set([Cur EXCEPT !.receivedFlag = TRUE,
                       !.packet = Frame(Cmd.ForceOperational, <<>>, <<>>)])
    /\ op' = "setFlag"
    /\ events' = events + 1
    /\ UNCHANGED <<tmrVars, codecVars, beaconVars>>

SpecSEUInit == TmrIdle /\ CodecIdle /\ BeaconIdle /\ FwIdle
SpecSEUNext == SeuBoot \/ SeuLoop \/ SeuUpset \/ SeuRx
SpecSEU == SpecSEUInit /\ [][SpecSEUNext]_vars

\* the three copies of a cell are pairwise distinct
AllDiffer(t) == t.copy1 # t.copy2 /\ t.copy1 # t.copy3 /\ t.copy2 # t.copy3

\* the last step was a pass of the loop with a scrub
ScrubPass == op' = "mainLoop" /\ lastScrubTime' = now' /\ lastScrubTime # now'

\* C16: when the three copies of the mission-state cell are pairwise
\* distinct, the fault is treated as catastrophic: the scrub forces the cell to
\* the safe default, Boot, in all three copies and the firmware starts again
\* from mission state Boot, or resets.
C16_TripleDivergence ==
    [][(pc = "loop" /\ AllDiffer(tmr_missionState) /\ ScrubPass)
          => \/ pc' = "setup"
             \/ /\ tmr_missionState' = tmrWrite(STATE_BOOT)
                /\ currentState' \in {STATE_BOOT, STATE_WAIT_DEPLOY}
                /\ stateStartTime' = now']_vars

\* C20: every time the burn wire is switched ON it is switched OFF again
\* within DEPLOY_HEAT_TIME plus one loop iteration, whatever scrub passes,
\* commands or switch readings occur in between.  The mission state leaves
\* WaitDeploy only within a scrub interval of the last upset or frame, so the
\* wire is switched on at most a scrub interval and a pass after SeuWindow, and
\* not again before the cool-down and the retry wait are over: it is LOW once
\* DEPLOY_HEAT_TIME and one more pass have gone by since.
C20_BurnWireBounded ==
    (pc = "loop" /\ now >= SeuWindow + SCRUB_INTERVAL + DEPLOY_HEAT_TIME + 3 * SeuTickMs)
        => R1 = "LOW"
\* C21: whenever the mission state is not Deploying the burn-wire output R1 is
\* LOW; in particular a ForceOperational dispatched while the antenna
\* sub-state is Heating does not leave the wire energised in Operational.
C21_BurnWireOnlyDeploying == currentState # STATE_DEPLOYING => R1 = "LOW"

\* ERR:ANT_DEPLOY_FAILED is among the messages of the last step
DeployFailedSent == \E i \in 1..Len(sent) : sent[i] = <<"ERR:ANT_DEPLOY_FAILED|">>

\* C24: if the deployment switch stays HIGH, the deployer performs exactly
\* DEPLOY_MAX_RETRIES heat/cool cycles, then emits ERR:ANT_DEPLOY_FAILED once,
\* the mission state becomes Operational and the antenna sub-state Complete.
\* A heat phase lasts DEPLOY_HEAT_TIME: Deploying is entered at most a scrub
\* interval and a pass after SeuWindow, so DEPLOY_HEAT_TIME and one more pass
\* later the deployer is no longer in its first heat phase; and the pass that
\* reports the failure leaves Operational and Complete, with the wire off and
\* the retries used up.
C24_HeatCoolCycles ==
    /\ (/\ pc = "loop" /\ currentState = STATE_DEPLOYING
        /\ now >= SeuWindow + SCRUB_INTERVAL + DEPLOY_HEAT_TIME + 3 * SeuTickMs)
           => ~(antennaState \in {ANT_IDLE, ANT_HEATING} /\ deployRetryCount = 0)
    /\ DeployFailedSent
           => /\ currentState = STATE_OPERATIONAL
              /\ antennaState = ANT_COMPLETE
              /\ deployRetryCount = DEPLOY_MAX_RETRIES
              /\ R1 = "LOW"

\* C25: once the antenna sub-state is Complete it never changes again during
\* that boot, and entering Complete writes antennaDeployed = true to the
\* checkpoint before any later tick: the pass that enters Complete ends with a
\* valid checkpoint whose deployment flag is set.
C25_CompleteIsTerminal ==
    [][/\ (antennaState = ANT_COMPLETE /\ op' # "setup") => antennaState' = ANT_COMPLETE
       /\ (antennaState # ANT_COMPLETE /\ antennaState' = ANT_COMPLETE)
             => /\ antennaDeployed'
                /\ EEPROM'[EEPROM_ADDR_MAGIC] = EEPROM_MAGIC
                /\ EEPROM'[EEPROM_ADDR_DEPLOY_OK] = 1
                /\ tmrRead(tmr_antennaState') = ANT_COMPLETE]_vars

\* the antenna was found deployed in an earlier pass, and a scrub pass has run
\* since: the sub-state is still Complete
C25_Witness ==
    /\ op = "mainLoop"
    /\ antennaState = ANT_COMPLETE
    /\ currentState = STATE_OPERATIONAL
    /\ lastScrubTime = now
    /\ \A i \in 1..Len(sent) : sent[i] # <<"OK:ANTENNA_DEPLOYED|">>
    /\ EEPROM[EEPROM_ADDR_DEPLOY_OK] = 1
    /\ R1 = "LOW"
\* the last step was a pass of the loop that read a frame whose command field
\* is empty
EmptyCommandPass ==
    /\ pc = "loop" /\ op' = "mainLoop"
    /\ receivedFlag /\ ~receivedFlag'
    /\ Framed(packet)
    /\ CommandField(packet) = <<>>

\* C30: a frame whose command field is empty (the '-' is immediately followed
\* by '&') is rejected: no handler is dispatched, no downlink is sent and
\* ground contact is not registered.  (A beacon or telemetry report of the
\* same pass is not a downlink to the frame.)
C30_EmptyCommandRejected ==
    [][EmptyCommandPass
          => /\ \A i \in 1..Len(sent') : Periodic(sent'[i])
             /\ lastGroundContact' = lastGroundContact
             /\ groundContactEstablished' => groundContactEstablished
             /\ accelRecording' = accelRecording]_vars
(***************************************************************************)
(* Mission: the receive flag, the radio and the boot counter               *)
(***************************************************************************)
\* a pass of the loop starts with the receive flag set
FlaggedPass == pc = "loop" /\ op' = "mainLoop" /\ receivedFlag

\* the pass was the Boot case, which reads nothing: the mission state was Boot
\* or the scrub of the pass set it back to Boot
BootPass ==
    /\ currentState' = STATE_WAIT_DEPLOY
    /\ stateStartTime' = now'
    /\ receivedFlag'
    /\ (currentState = STATE_BOOT \/ lastScrubTime' = now')

SentBeforeRead(m) ==
    \/ Periodic(m)
    \/ m[1] \in {"ERR:IMG_TIMEOUT", "OK:ANTENNA_DEPLOYED|", "WARN:ANT_RETRY_WAIT|",
                 "ERR:ANT_DEPLOY_FAILED|"}

\* C32: a received frame whose RX flag is set at the start of a main-loop
\* iteration is read from the radio before the radio is reconfigured for any
\* transmission in that iteration (beacon, periodic telemetry, image-timeout
\* notice or antenna status message): a pass that starts with the flag set
\* and reads the radio has sent none of these.
C32_ReadBeforeTransmit ==
    [][(FlaggedPass /\ ~receivedFlag')
          => \A i \in 1..Len(sent') : ~SentBeforeRead(sent'[i])]_vars
(***************************************************************************)
(* Transmit faults: an operational satellite whose radio refuses to send   *)
(***************************************************************************)
\* what the radio answers during a pass: everything works, the configuration
\* for TX fails on every retry, or the transmission times out
TxEnvs ==
    {Nominal, [Nominal EXCEPT !.txBegin = MAX_TX_RETRIES],
     [Nominal EXCEPT !.transmit = "TX_TIMEOUT"]}

\* the number of sends that have failed in a row without a recovery of the
\* radio, after a pass with answers env that left the firmware as t: a reset
\* or a recovery (which zeroes both counters) ends the row, and so does a
\* successful send
FailedSends(t, env, n) ==
    IF t.pc = "setup" THEN 0
    ELSE IF t.sent = <<>> THEN n
    ELSE IF env = Nominal THEN 0
    ELSE IF t.contE = 0 /\ t.contR = 0 THEN 0
    ELSE n + Len(t.sent)

\* power-on and every restart: setup on working hardware
TxBoot ==
    /\ pc = "setup"
    /\ Set(setup(PowerOn(EEPROM, SD)))
    /\ op' = "setup"
    /\ UNCHANGED <<events, tmrVars, codecVars, beaconVars>>

\* the result t of a pass is stored and the failed sends are counted
TxStore(t, env) ==
    /\ Set(t)
    /\ op' = "mainLoop"
    /\ events' = FailedSends(t, env, events)
    /\ UNCHANGED <<tmrVars, codecVars, beaconVars>>

\* one pass of loop()
TxLoop ==
    \E env \in TxEnvs :
        /\ pc = "loop"
        /\ now + TxTickMs <= TxMaxNow
        /\ TxStore(loop(Run(TxTickMs, env)), env)

\* setFlag: ForceOperational is received right after setup
TxRx ==
    /\ pc = "loop"
    /\ op = "setup"
    /\ currentState # STATE_OPERATIONAL
    /\ radio.receiving
    /\ Set([Cur EXCEPT !.receivedFlag = TRUE,
                       !.packet = Frame(Cmd.ForceOperational, <<>>, <<>>)])
    /\ op' = "setFlag"
    /\ UNCHANGED <<events, tmrVars, codecVars, beaconVars>>

SpecTxFaultInit == TmrIdle /\ CodecIdle /\ BeaconIdle /\ FwIdle
SpecTxFaultNext == TxBoot \/ TxLoop \/ TxRx
SpecTxFault == SpecTxFaultInit /\ [][SpecTxFaultNext]_vars

\* C33: if from some point on every send fails (whether at TX configuration
\* or at transmit) while the firmware is Operational, radioNeedsRecovery
\* eventually becomes true and recoverRadio is invoked: a persistent
\* transmit-path fault cannot go on forever without escalation to recovery.
\* contE exceeds 5 with the sixth failure, and the recovery check follows the
\* sends of the pass, so no more than seven sends in a row fail without a
\* recovery in between.
C33_FaultEscalates == currentState = STATE_OPERATIONAL => events <= 7
\* C34: across any sequence of resets with a valid checkpoint, the boot count
\* after each reset is exactly one more than after the previous one, also
\* when nothing was saved between the two resets (a watchdog reset): a boot
\* that loads the checkpoint, following a boot that loaded it, counts one more
\* than that boot did.
C34_BootCountIncrements ==
    [][(op' = "setup" /\ loaded /\ loaded') => bootCount' = Inc32(bootCount)]_vars
(***************************************************************************)
(* Beacon scheduler: getBeaconInterval and sendBeacon on a 32-bit clock    *)
(***************************************************************************)
\* a + b on unsigned long: the sum modulo 2^32
WordAdd(a, b) ==
    LET carry == IF a[2] + b[2] >= Half THEN 1 ELSE 0
    IN  <<(a[1] + b[1] + carry) % Half, (a[2] + b[2]) % Half>>

\* a <= b on unsigned long
WordLe(a, b) == a[1] < b[1] \/ (a[1] = b[1] /\ a[2] <= b[2])

\* values of millis() and lastGroundContact: the start and the end of the
\* clock's range, its middle, and the neighbourhood of 24 hours
BeaconClocks ==
    {Word(0), Word(1), Word(BeaconSkew),
     Word(BEACON_LOST_THRESHOLD - BeaconSkew), Word(BEACON_LOST_THRESHOLD - 1),
     Word(BEACON_LOST_THRESHOLD), Word(BEACON_LOST_THRESHOLD + 1),
     Word(BEACON_LOST_THRESHOLD + BeaconSkew),
     <<Half \div 2 - 1, Half - 1>>, <<Half \div 2, 0>>,
     WordSub(Word(0), Word(BeaconSkew)), <<Half - 1, Half - 1>>}

SpecBeaconInit ==
    /\ beacon_now \in BeaconClocks
    /\ beacon_last \in BeaconClocks
    /\ beacon_contact \in BOOLEAN
    /\ beacon_done = FALSE
    /\ beacon_interval = 0
    /\ beacon_prefix = ""
    /\ TmrIdle
    /\ CodecIdle
    /\ FwIdle

\* the beacon check of mainLoop: getBeaconInterval, and the mode sendBeacon
\* chooses
BeaconEval ==
    /\ ~beacon_done
    /\ beacon_interval' = beaconInterval(beacon_contact, beacon_now, beacon_last)
    /\ beacon_prefix' = beaconMode(beacon_contact, beacon_now, beacon_last)
    /\ beacon_done' = TRUE
    /\ UNCHANGED <<beacon_now, beacon_last, beacon_contact, tmrVars, codecVars, fwVars>>

SpecBeaconNext == BeaconEval
SpecBeacon == SpecBeaconInit /\ [][SpecBeaconNext]_vars

\* (now - lastGroundContact) mod 2^32 is at most 24 hours: going round the
\* clock from lastGroundContact, now comes no later than the deadline
\* lastGroundContact + 24 h
BeaconDeadline == WordAdd(beacon_last, Word(BEACON_LOST_THRESHOLD))
WithinDay ==
    IF WordLe(beacon_last, BeaconDeadline)
    THEN WordLe(beacon_last, beacon_now) /\ WordLe(beacon_now, BeaconDeadline)
    ELSE WordLe(beacon_last, beacon_now) \/ WordLe(beacon_now, BeaconDeadline)

RECURSIVE Decimal(_)
\* the decimal digits of n
Decimal(n) ==
    IF n < 10 THEN <<CharOf(CodeOf["0"] + n)>>
    ELSE Decimal(n \div 10) \o <<CharOf(CodeOf["0"] + (n % 10))>>

\* chunk counts, sizes and chunk indices sent
ParamCounts == {0, 1, 2, IMAGE_MAX_CHUNKS, IMAGE_MAX_CHUNKS + 1, 65536, 65537}
ParamSizes == {0, 6, IMAGE_MAX_SIZE, IMAGE_MAX_SIZE + 1, 65536, 65542}
ParamIndices == {0, 1, 2, 65536, 65537}

\* ImageStart for c chunks and s bytes, ImageChunk for index k ("ABC")
StartFrame(c, s) == Frame(Cmd.ImageStart, <<"/", "a">>, Decimal(c) \o <<":">> \o Decimal(s))
IndexFrame(k) == Frame(Cmd.ImageChunk, Decimal(k), <<"Q", "U", "J", "D">>)

\* ImageChunk for index k with a payload of 172 characters, which decodes to
\* 129 bytes
LongPayload == [i \in 1..172 |-> "Q"]
LongFrame(k) == Frame(Cmd.ImageChunk, Decimal(k), LongPayload)

ParamFrames ==
    {StartFrame(c, s) : c \in ParamCounts, s \in ParamSizes}
        \cup {IndexFrame(k) : k \in ParamIndices}
        \cup {LongFrame(0)}
        \cup {Frame(Cmd.ImageCancel, <<>>, <<>>)}

\* power-on: setup on working hardware
ParBoot ==
    /\ pc = "setup"
    /\ Set(setup(PowerOn(EEPROM, SD)))
    /\ op' = "setup"
    /\ UNCHANGED <<events, tmrVars, codecVars, beaconVars>>

\* one pass of mainLoop
ParLoop ==
    /\ pc = "loop"
    /\ now + ParTickMs <= ParMaxNow
    /\ Set(mainLoop(Run(ParTickMs, Nominal)))
    /\ op' = "mainLoop"
    /\ UNCHANGED <<events, tmrVars, codecVars, beaconVars>>

\* setFlag: a frame of the image protocol has been received
ParRx ==
    \E frame \in ParamFrames :
        /\ pc = "loop"
        /\ radio.receiving
        /\ ~receivedFlag
        /\ now + ParTickMs <= ParMaxNow
        /\ Set([Cur EXCEPT !.receivedFlag = TRUE, !.packet = frame])
        /\ op' = "setFlag"
        /\ UNCHANGED <<events, tmrVars, codecVars, beaconVars>>

SpecParamsInit == TmrIdle /\ CodecIdle /\ BeaconIdle /\ FwIdle
SpecParamsNext == ParBoot \/ ParLoop \/ ParRx
SpecParams == SpecParamsInit /\ [][SpecParamsNext]_vars

\* the last pass read the frame
FrameRead == op' = "mainLoop" /\ receivedFlag /\ ~receivedFlag'

\* an answer that begins with ERR was sent in the last pass
ErrorSent == \E i \in 1..Len(sent') : sent'[i][1] \in {"ERR:IMG_INVALID_CHUNKS", "ERR:IMG_TOO_LARGE", "ERR:IMG_INVALID_CHUNK"}

\* C36: image parameters are validated as integers: for every non-negative
\* integer c, s and k sent in ImageStart data "<c>:<s>" or as an ImageChunk
\* index, the transfer enters Receiving only if 1 <= c <= 64 and
\* 1 <= s <= 8192, and a chunk is accepted only if k < totalChunks; values of
\* 65536 or more are rejected with an error and leave the transfer state
\* unchanged.
C36_ParametersValidated ==
    [][/\ \A c \in ParamCounts, s \in ParamSizes :
              (/\ FrameRead /\ packet = StartFrame(c, s)
               /\ imageTransfer.state # IMG_RECEIVING)
              => /\ imageTransfer'.state = IMG_RECEIVING
                     => (1 <= c /\ c <= 64 /\ 1 <= s /\ s <= 8192)
                 /\ (c >= 65536 \/ s >= 65536)
                     => (ErrorSent /\ imageTransfer' = imageTransfer)
       /\ \A k \in ParamIndices :
              (/\ FrameRead /\ packet = IndexFrame(k)
               /\ imageTransfer.state = IMG_RECEIVING)
              => /\ imageTransfer'.receivedChunks # imageTransfer.receivedChunks
                     => k < imageTransfer.totalChunks
                 /\ k >= 65536 => (ErrorSent /\ imageTransfer' = imageTransfer)]_vars

\* the last pass accepted chunk k
ChunkAccepted(k) ==
    /\ FrameRead
    /\ packet \in {IndexFrame(k), LongFrame(k)}
    /\ \E i \in 1..Len(sent') : sent'[i][1] = "OK:IMG_CHUNK:"

\* the bytes of the sink file, before and after the pass
SinkBefore == IF TEMP_IMAGE_FILE \in DOMAIN SD THEN SD[TEMP_IMAGE_FILE] ELSE <<>>
SinkAfter == IF TEMP_IMAGE_FILE \in DOMAIN SD' THEN SD'[TEMP_IMAGE_FILE] ELSE <<>>

\* C38: an accepted chunk k modifies only sink-file bytes in the range
\* [k*128, k*128+128): for every base64 payload that passes the frame codec,
\* chunks with different indices never overwrite each other's bytes.
C38_ChunkStaysInRange ==
    [][\A k \in 0..2 :
          ChunkAccepted(k) =>
              \A o \in (DOMAIN SinkBefore \cup DOMAIN SinkAfter)
                        \ (k * 128 .. k * 128 + 127) :
                  /\ o \in DOMAIN SinkBefore
                  /\ o \in DOMAIN SinkAfter
                  /\ SinkAfter[o] = SinkBefore[o]]_vars
(***************************************************************************)
(* Image upload of an operational satellite: starts, chunks, end, cancel   *)
(* and silences that run into the timeout                                  *)
(***************************************************************************)
\* the frames of the upload: an image of two chunks, chunk indices 0, 1 and
\* 2 ("ABC")
UploadFrames ==
    {Frame(Cmd.ForceOperational, <<>>, <<>>),
     StartFrame(2, 6), IndexFrame(0), IndexFrame(1), IndexFrame(2),
     Frame(Cmd.ImageEnd, <<>>, <<>>), Frame(Cmd.ImageCancel, <<>>, <<>>)}

\* what the SD card answers during a pass
UploadEnvs == {Nominal, [Nominal EXCEPT !.fileOpen = FALSE], [Nominal EXCEPT !.fsOk = FALSE]}

\* the time to the next pass: short when a frame waits or the chip has just
\* started, a silence otherwise
UploadWait == IF receivedFlag \/ op = "setup" THEN UpTickMs ELSE UpQuietMs

\* power-on: setup on working hardware
UpBoot ==
    /\ pc = "setup"
    /\ Set(setup(PowerOn(EEPROM, SD)))
    /\ op' = "setup"
    /\ UNCHANGED <<events, tmrVars, codecVars, beaconVars>>

\* one pass of mainLoop
UpLoop ==
    \E env \in UploadEnvs :
        /\ pc = "loop"
        /\ now + UploadWait <= UpMaxNow
        /\ env # Nominal => receivedFlag
        /\ Set(mainLoop(Run(UploadWait, env)))
        /\ op' = "mainLoop"
        /\ UNCHANGED <<events, tmrVars, codecVars, beaconVars>>

\* setFlag: a frame of the upload has been received
UpRx ==
    \E frame \in UploadFrames :
        /\ pc = "loop"
        /\ radio.receiving
        /\ ~receivedFlag
        /\ op = "mainLoop"
        /\ events < MaxUpEvents
        /\ (currentState = STATE_OPERATIONAL) = (frame # Frame(Cmd.ForceOperational, <<>>, <<>>))
        /\ Set([Cur EXCEPT !.receivedFlag = TRUE, !.packet = frame])
        /\ op' = "setFlag"
        /\ events' = events + 1
        /\ UNCHANGED <<tmrVars, codecVars, beaconVars>>

SpecUploadInit == TmrIdle /\ CodecIdle /\ BeaconIdle /\ FwIdle
SpecUploadNext == UpBoot \/ UpLoop \/ UpRx
SpecUpload == SpecUploadInit /\ [][SpecUploadNext]_vars

\* the chunk indices marked received
Marked == {k \in DOMAIN imageTransfer.chunkReceived : imageTransfer.chunkReceived[k]}

\* C37: in every reachable state of the image uploader, receivedCount equals
\* the number of chunk indices marked received, every marked index is less
\* than totalChunks, receivedCount <= totalChunks <= 64, and in phase Idle the
\* count is zero and no index is marked; no sequence of ImageStart,
\* ImageChunk, ImageEnd, ImageCancel and timeout breaks this.
C37_TransferConsistent ==
    /\ imageTransfer.receivedChunks = Cardinality(Marked)
    /\ \A k \in Marked : k < imageTransfer.totalChunks
    /\ imageTransfer.receivedChunks <= imageTransfer.totalChunks
    /\ imageTransfer.totalChunks <= 64
    /\ imageTransfer.state = IMG_IDLE
           => imageTransfer.receivedChunks = 0 /\ Marked = {}

\* an upload that had received chunks was left alone and has timed out: the
\* uploader is idle again and the temp file is gone
C37_Witness ==
    /\ op = "mainLoop"
    /\ \E i \in 1..Len(sent) : sent[i] = <<"ERR:IMG_TIMEOUT">>
    /\ packet = IndexFrame(1)
    /\ events = 4
    /\ imageTransfer = IdleTransfer
    /\ TEMP_IMAGE_FILE \notin DOMAIN SD
(***************************************************************************)
(* File commands: paths and rename destinations as the ground sends them   *)
(***************************************************************************)
\* the commands that reach the SD card handlers of memor.cpp
FileCommands ==
    {Cmd.ListDir, Cmd.CreateDir, Cmd.RemoveDir, Cmd.WriteFile, Cmd.AppendFile,
     Cmd.ReadFile, Cmd.RenameFile, Cmd.DeleteFile, Cmd.TestFileIO}

\* paths with and without a step to the parent directory
PlainPaths == {<<"/", "a">>, <<"/", "b">>}
ParentPaths == {<<"/", ".", ".", "/", "a">>, <<"/", "b", "/", ".", ".", "/", "c">>}

FileFrames ==
    {Frame(Cmd.WriteFile, p, <<"x">>) : p \in PlainPaths \cup ParentPaths}
        \cup {Frame(Cmd.ReadFile, p, <<>>) : p \in PlainPaths \cup ParentPaths}
        \cup {Frame(Cmd.DeleteFile, p, <<>>) : p \in PlainPaths \cup ParentPaths}
        \cup {Frame(Cmd.RenameFile, p, d) :
                  p \in PlainPaths \cup ParentPaths, d \in PlainPaths \cup ParentPaths}

\* power-on: setup on working hardware
FsBoot ==
    /\ pc = "setup"
    /\ Set(setup(PowerOn(EEPROM, SD)))
    /\ op' = "setup"
    /\ UNCHANGED <<events, tmrVars, codecVars, beaconVars>>

\* one pass of mainLoop
FsLoop ==
    /\ pc = "loop"
    /\ now + FsTickMs <= FsMaxNow
    /\ Set(mainLoop(Run(FsTickMs, Nominal)))
    /\ op' = "mainLoop"
    /\ UNCHANGED <<events, tmrVars, codecVars, beaconVars>>

\* setFlag: a file command has been received
FsRx ==
    \E frame \in FileFrames :
        /\ pc = "loop"
        /\ radio.receiving
        /\ ~receivedFlag
        /\ now + FsTickMs <= FsMaxNow
        /\ Set([Cur EXCEPT !.receivedFlag = TRUE, !.packet = frame])
        /\ op' = "setFlag"
        /\ UNCHANGED <<events, tmrVars, codecVars, beaconVars>>

SpecFilesInit == TmrIdle /\ CodecIdle /\ BeaconIdle /\ FwIdle
SpecFilesNext == FsBoot \/ FsLoop \/ FsRx
SpecFiles == SpecFilesInit /\ [][SpecFilesNext]_vars

\* the last pass read a frame that passed validateMessage and handed it to a
\* handler of memor.cpp, which answered
FileHandlerRan ==
    /\ op' = "mainLoop"
    /\ receivedFlag /\ ~receivedFlag'
    /\ validateMessage(packet).ok
    /\ validateMessage(packet).command \in FileCommands
    /\ sent' # <<>>

\* C39: no filesystem handler is ever invoked with a path argument containing
\* "..": this covers the path field of every command and also the data field
\* when it is used as a path (the destination of RenameFile).
C39_NoParentPath ==
    [][FileHandlerRan =>
          /\ indexOf(validateMessage(packet).path, <<".", ".">>) = -1
          /\ validateMessage(packet).command = Cmd.RenameFile
                 => indexOf(validateMessage(packet).data, <<".", ".">>) = -1]_vars
\* a recording with the header and all samples is on the card
CompleteRecording ==
    \E p \in DOMAIN SD :
        /\ Len(p) = 3 /\ p[1] = "/accel/rec_"
        /\ Cardinality(DOMAIN SD[p]) = ACCEL_HEADER_SIZE + ACCEL_TOTAL_SAMPLES * Len(AccelSample)

\* C40: whenever the persistent first-recording-done flag is 0xAA, the
\* automatic recording is either still in progress or has completed with a
\* full 21,616-byte file: a reset, a write error or a cancel during the
\* automatic recording never leaves the flag set with no complete recording.
C40_FlagMeansRecorded ==
    EEPROM[EEPROM_FIRST_ACCEL_ADDR] = 170
        => (accelRecording.state = ACCEL_RECORDING \/ CompleteRecording)
====
